---------------------------- MODULE Spec2Model ----------------------------
(***************************************************************************)
(* A model of the jqsh execution engine (src/jqsh/filter.py,               *)
(* src/jqsh/functions.py, src/jqsh/parser.py).                             *)
(*                                                                         *)
(* The module holds four state machines over one set of variables:         *)
(*   SpecWorker  the threads of one filter evaluation (FilterThread,       *)
(*               helper_thread, handle_namespaces, handle_values) and the  *)
(*               three channels they share;                                *)
(*   SpecEval    the evaluation of a filter with sub-filters: its run()    *)
(*               generator, drawn from by the helper thread, and the       *)
(*               operands of an operator reading the forks of its input;   *)
(*   SpecScope   a Semicolon: its left operand, then its right operand     *)
(*               evaluated in the scope the left one produced;             *)
(*   SpecParse   jqsh.parser: the textual form of a filter tree, or a      *)
(*               text, tokenized and parsed.                               *)
(* jqsh.channel and jqsh.values are not part of the sources at hand; the   *)
(* definitions that stand for them follow the specification (section 3     *)
(* and section 4.1) and are marked so in the model map.                    *)
(***************************************************************************)
EXTENDS Integers, Sequences, FiniteSets, TLC

\* Longest input sequence fed to a filter evaluation.
MaxInput == 2

VARIABLES
    the_filter,       \* FilterThread.filter: the filter being evaluated
    input_channel,    \* the values of the (terminated) input channel
    bridge_channel,   \* run_raw / wrapper: bridge_channel
    output_channel,   \* FilterThread.output_channel
    pc,               \* position of each thread of the evaluation
    cursor,           \* how many values each thread has drawn from its source
    pending,          \* what the run() generator will do next, up to its next read
    throwing,         \* the value a thread is throwing, and where it goes on
    raised,           \* an unexpected failure was raised in the evaluation logic
    input_scope,      \* the scope metadata of the input channel
    output_scope,     \* the scope metadata attached to the output channel
    started,          \* the sub-filters the generator has started, in order
    forks,            \* how far each fork of the bridge channel has been read
    operand_pc,       \* position of the thread of each operand
    seen,             \* the values each operand has drawn from its input
    semicolon,        \* the thread of an enclosing Semicolon and its output channel
    parser,           \* jqsh.parser: the text being tokenized, the tokens, the result
    popen,            \* the calls made on the streams of a spawned process, in order
    builtin_functions \* jqsh.functions.builtin_functions: name -> registered arities

workerVars == <<the_filter, input_channel, bridge_channel, output_channel, pc,
                cursor, pending, throwing, raised, input_scope, output_scope>>

evalVars == <<started, forks, operand_pc, seen, semicolon, parser, popen, builtin_functions>>

vars == <<workerVars, evalVars>>

-----------------------------------------------------------------------------
(* Values (jqsh.values, after section 3 of the specification).             *)

\* A Number is a decimal: v * 10^(-e), kept without trailing zeros.
RECURSIVE Normal(_, _)
Normal(v, e) == IF e > 0 /\ v % 10 = 0 THEN Normal(v \div 10, e - 1)
                ELSE [t |-> "Number", v |-> v, e |-> e]

Decimal(v, e) == Normal(v, e)
Number(n) == Decimal(n, 0)
String(chars) == [t |-> "String", value |-> chars]
Array(items) == [t |-> "Array", items |-> items]
JQSHException(name) == [t |-> "JQSHException", name |-> name]

Boolean(b) == [t |-> "Boolean", b |-> b]
Null == [t |-> "Null"]
\* An Object keeps its [key, value] pairs in insertion order.
Object(pairs) == [t |-> "Object", pairs |-> pairs]

IsException(value) == value.t = "JQSHException"
\* number % 1 == 0
IsIntegral(number) == number.e = 0

RECURSIVE Pow10(_)
Pow10(n) == IF n = 0 THEN 1 ELSE 10 * Pow10(n - 1)

Max(a, b) == IF a >= b THEN a ELSE b

\* Decimal addition and multiplication.
DecimalAdd(x, y) ==
    LET e == Max(x.e, y.e)
    IN  Normal(x.v * Pow10(e - x.e) + y.v * Pow10(e - y.e), e)
DecimalMultiply(x, y) == Normal(x.v * y.v, x.e + y.e)

\* sequence * count, as Python repeats a sequence (nothing for a count below 1).
RECURSIVE Repeat(_, _)
Repeat(seq, count) == IF count <= 0 THEN <<>> ELSE seq \o Repeat(seq, count - 1)

\* Object.__contains__ and dict assignment on the ordered pairs.
HasKey(pairs, key) == \E i \in 1..Len(pairs) : pairs[i][1] = key
SetKey(pairs, key, value) ==
    IF HasKey(pairs, key)
    THEN [i \in 1..Len(pairs) |-> IF pairs[i][1] = key THEN <<key, value>> ELSE pairs[i]]
    ELSE Append(pairs, <<key, value>>)
RECURSIVE Update(_, _)
Update(pairs, other) ==
    IF other = <<>> THEN pairs
    ELSE Update(SetKey(pairs, Head(other)[1], Head(other)[2]), Tail(other))

\* bool(value): every value is truthy except false, null, zero and the empty
\* String, Array and Object.
bool(value) ==
    CASE value.t = "Boolean" -> value.b
      [] value.t = "Null" -> FALSE
      [] value.t = "Number" -> value.v # 0
      [] value.t = "String" -> value.value # <<>>
      [] value.t = "Array" -> value.items # <<>>
      [] value.t = "Object" -> value.pairs # <<>>
      [] OTHER -> TRUE

-----------------------------------------------------------------------------
(* Channels (jqsh.channel, after section 4.1 of the specification).        *)
(* terminations counts the calls of terminate(), rejected the calls of     *)
(* push() that found the channel terminated.                               *)

Channel == [values |-> <<>>, terminated |-> FALSE, terminations |-> 0, rejected |-> 0]

\* push(value): appends a value; fails if the channel was already terminated.
push(channel, value) ==
    IF channel.terminated THEN [channel EXCEPT !.rejected = @ + 1]
    ELSE [channel EXCEPT !.values = Append(@, value)]

\* terminate(): marks end-of-stream.
terminate(channel) ==
    [channel EXCEPT !.terminated = TRUE, !.terminations = @ + 1]

\* A push or a terminate on a terminated channel raises in the calling thread.
Fails(channel) == channel.terminated

-----------------------------------------------------------------------------
(* Helpers.                                                                *)

SeqsUpTo(S, n) == UNION {[1..k -> S] : k \in 0..n}

\* What a generator does between two reads of its input.
Yield(value) == [op |-> "yield", value |-> value]
Raise == [op |-> "raise", value |-> JQSHException("internal")]
\* The generator returns before its input has ended.
Return == [op |-> "return"]
YieldAll(values) == [i \in 1..Len(values) |-> Yield(values[i])]

\* A namespace maps the bound names to their captured value sequences.
EmptyNamespace == [n \in {} |-> <<>>]
Bind(namespace, name, var) ==
    [n \in DOMAIN namespace \cup {name} |-> IF n = name THEN var ELSE namespace[n]]

-----------------------------------------------------------------------------
(* The builtin catalog.                                                    *)

VarArgs == -1

\* builtin_functions once the module is imported: name -> the arities
\* registered by the def_builtin decorators.
def_builtin ==
    [name \in {"argv", "each", "empty", "explode", "false", "isMain", "for",
               "implode", "nth", "null", "range", "reduce", "true"} |->
        CASE name = "argv" -> {0, 1}
          [] name \in {"each", "nth"} -> {1}
          [] name \in {"for", "reduce"} -> {2}
          [] OTHER -> {0}]

\* A lookup by name alone: the entry of a registered name, whatever its arity.
get_builtin_any_arity(name, num_args) ==
    [KeyError |-> name \notin DOMAIN builtin_functions, name |-> name,
     num_args |-> num_args]

\* A lookup that knows no variadic entries.
get_builtin_exact(name, num_args) ==
    [KeyError |-> ~(name \in DOMAIN builtin_functions /\ num_args \in builtin_functions[name]),
     name |-> name, num_args |-> num_args]

\* get_builtin: the entry for (name, num_args), else the variadic entry; a
\* missing name or a missing variadic entry raises KeyError.
get_builtin(name, num_args) ==
    IF name \in DOMAIN builtin_functions
    THEN IF num_args \in builtin_functions[name]
         THEN [KeyError |-> FALSE, name |-> name, num_args |-> num_args]
         ELSE IF VarArgs \in builtin_functions[name]
              THEN [KeyError |-> FALSE, name |-> name, num_args |-> VarArgs]
              ELSE [KeyError |-> TRUE, name |-> name, num_args |-> num_args]
    ELSE [KeyError |-> TRUE, name |-> name, num_args |-> num_args]

\* The builtin range: one Number per integer below an integral Number.
range(value) ==
    IF value.t = "Number"
    THEN IF IsIntegral(value)
         THEN [i \in 1..(IF value.v > 0 THEN value.v ELSE 0) |-> Yield(Number(i - 1))]
         ELSE <<Yield(JQSHException("integer"))>>
    ELSE <<Yield(JQSHException("type"))>>

\* The builtin explode: ord(c) for each character of a String (kept here as a
\* Number); a value that is no String yields a type exception and is then
\* iterated all the same, which fails for a Number.
ord(c) == CASE c = "a" -> 97 [] c = "b" -> 98 [] OTHER -> 63

explode(value) ==
    IF value.t = "String"
    THEN [i \in 1..Len(value.value) |-> Yield(Number(ord(value.value[i])))]
    ELSE <<Yield(JQSHException("type")), Raise>>

\* The builtin nth(index): what it does before it reads its input (the first
\* value of the index filter's output must be an integral Number), for the
\* value at each position of the input, and when the input ends before the
\* position asked for.
nth_index(index_output) ==
    IF index_output = <<>> THEN <<Yield(JQSHException("empty"))>>
    ELSE IF Head(index_output).t # "Number" THEN <<Yield(JQSHException("type"))>>
    ELSE IF ~IsIntegral(Head(index_output)) THEN <<Yield(JQSHException("integer"))>>
    ELSE <<>>

nth(index_value, position, value) ==
    IF position = index_value.v THEN <<Yield(value), Return>> ELSE <<>>

nth_input_ended == <<Yield(JQSHException("numValues"))>>

-----------------------------------------------------------------------------
(* The generators run by a helper thread (or, for Apply, by the filter     *)
(* thread itself): what they do before the first read of their input, for  *)
(* each value read, and after the input has ended.                         *)

\* Filter.sensible_string: the one String the filter yields; Name gives its name.
sensible_string(filter) ==
    CASE filter.cls = "Name" -> [TypeError |-> FALSE, value |-> filter.name]
      [] filter.cls = "StringLiteral" -> [TypeError |-> FALSE, value |-> filter.text]
      [] OTHER -> [TypeError |-> TRUE, value |-> ""]

\* value[key] of an Object.
Lookup(pairs, key) == pairs[CHOOSE i \in 1..Len(pairs) : pairs[i][1] = key][2]

\* value[int(key)] of an Array: a negative index counts from the end, an index
\* outside of -len..len-1 raises IndexError.
IndexError(items, index) == index >= Len(items) \/ index < 0 - Len(items)
Item(items, index) ==
    IF index >= 0 THEN items[index + 1] ELSE items[Len(items) + index + 1]

Thrown(name) == [op |-> "throw", value |-> JQSHException(name)]

\* An indexing that truncates a Number key instead of refusing a fraction.
apply_index_truncating(key, value) ==
    IF value.t = "Object"
    THEN IF HasKey(value.pairs, key) THEN Yield(Lookup(value.pairs, key)) ELSE Thrown("key")
    ELSE IF value.t = "Array" /\ key.t = "Number"
    THEN LET index == key.v \div Pow10(key.e) IN
         IF IndexError(value.items, index) THEN Thrown("index")
         ELSE Yield(Item(value.items, index))
    ELSE Thrown("type")

\* Apply.run_raw, the body of the loop of the lookup form: what one input
\* value gives under the key.
apply_index(key, value) ==
    IF value.t = "Object"
    THEN IF HasKey(value.pairs, key) THEN Yield(Lookup(value.pairs, key)) ELSE Thrown("key")
    ELSE IF value.t = "Array"
    THEN IF key.t = "Number"
         THEN IF IsIntegral(key)
              THEN IF IndexError(value.items, key.v) THEN Thrown("index")
                   ELSE Yield(Item(value.items, key.v))
              ELSE Thrown("integer")
         ELSE Thrown("type")
    ELSE Thrown("type")

\* Command.run_command, up to the loop over the input: the outcome of Popen.
run_command_spawn(filter) ==
    CASE filter.spawn = "FileNotFoundError" -> <<Yield(JQSHException("path"))>>
      [] filter.spawn = "PermissionError" -> <<Yield(JQSHException("permission"))>>
      [] filter.spawn = "NotADirectoryError" -> <<Raise>>
      [] OTHER -> <<>>

\* Command.run_command, after the input stream is closed: the parsed output.
run_command_read(filter) == YieldAll(filter.stdout)

\* The calls on the streams of the process.
Write(bytes) == [op |-> "write", bytes |-> bytes]
Close == [op |-> "close"]
Read == [op |-> "read"]
EOT == "\\x04"

\* str(value): the textual form of a value.
value_str(value) == [str |-> value]

\* popen.stdin.write(str(value).encode('utf-8') + b'\n')
run_command_write_value(value) == <<Write(<<value_str(value), "\n">>)>>

\* The output of the process read before its input stream is closed.
run_command_close_read_first == <<Read, Write(<<EOT>>), Close>>

\* Command.run_command, after the loop over the input: the end marker, the
\* close of the input stream, the read of the output.
run_command_close == <<Write(<<EOT>>), Close, Read>>

(* The run() generators of the filters with sub-filters. A sub-filter is   *)
(* an Operand: a filter with the output its evaluation gives. A generator  *)
(* is the sequence of what it does: it forks its input, starts a           *)
(* sub-filter, waits for the end of an operand's output, yields a value or *)
(* raises. The thread that draws from the generator decides how far the    *)
(* sequence is carried out.                                                *)

Operand(output) == [cls |-> "Operand", output |-> output]

Fork == [op |-> "fork"]
Start(name, index, input) == [op |-> "start", name |-> name, index |-> index, input |-> input]
Await(name) == [op |-> "await", name |-> name]

\* The values a generator yields when it is drawn from to its end.
RECURSIVE Yields(_)
Yields(events) ==
    IF events = <<>> THEN <<>>
    ELSE IF Head(events).op = "yield" THEN <<Head(events).value>> \o Yields(Tail(events))
    ELSE Yields(Tail(events))

Sides == {"left_operand", "right_operand"}

\* Both operands started on one and the same fork.
OperandInput_shared(side) == "left_input"

\* left_input, right_input = input_channel / 2: the fork each operand is started on.
OperandInput(side) == IF side = "left_operand" THEN "left_input" ELSE "right_input"

\* Operator.output_pairs, the forking and the draining of the operands.
output_pairs_start ==
    <<Fork,
      Start("left_operand", 0, OperandInput("left_operand")), Await("left_operand"),
      Start("right_operand", 0, OperandInput("right_operand")), Await("right_operand")>>

\* The pairs of a zip that stops with the shorter output.
output_pairs_shortest(left_output, right_output) ==
    LET len == IF Len(left_output) <= Len(right_output) THEN Len(left_output)
               ELSE Len(right_output)
    IN  [i \in 1..len |-> [tuple |-> TRUE, left_output |-> left_output[i],
                           right_output |-> right_output[i]]]

\* Operator.output_pairs, the zipping of the two drained outputs.
output_pairs(left_output, right_output) ==
    IF Len(left_output) = 0 /\ Len(right_output) = 0 THEN <<>>
    ELSE IF Len(left_output) = 0
    THEN [i \in 1..Len(right_output) |-> [tuple |-> FALSE, output |-> right_output[i]]]
    ELSE IF Len(right_output) = 0
    THEN [i \in 1..Len(left_output) |-> [tuple |-> FALSE, output |-> left_output[i]]]
    ELSE [j \in 1..Max(Len(left_output), Len(right_output)) |->
            LET i == j - 1
            IN  [tuple |-> TRUE,
                 left_output |-> left_output[(i % Len(left_output)) + 1],
                 right_output |-> right_output[(i % Len(right_output)) + 1]]]

\* Add.run, the result for one pair.
add(left_output, right_output) ==
    IF left_output.t = "Number" /\ right_output.t = "Number"
    THEN DecimalAdd(left_output, right_output)
    ELSE IF left_output.t = "Array" /\ right_output.t = "Array"
    THEN Array(left_output.items \o right_output.items)
    ELSE IF left_output.t = "String" /\ right_output.t = "String"
    THEN String(left_output.value \o right_output.value)
    ELSE IF left_output.t = "Object" /\ right_output.t = "Object"
    THEN Object(Update(left_output.pairs, right_output.pairs))
    ELSE JQSHException("type")

\* Multiply.run, the result for one pair.
multiply(left_output, right_output) ==
    IF left_output.t = "Number" /\ right_output.t = "Number"
    THEN DecimalMultiply(left_output, right_output)
    ELSE IF left_output.t = "String" /\ right_output.t = "Number"
    THEN IF IsIntegral(right_output)
         THEN String(Repeat(left_output.value, right_output.v))
         ELSE JQSHException("integer")
    ELSE IF left_output.t = "Array" /\ right_output.t = "Number"
    THEN IF IsIntegral(right_output)
         THEN Array(Repeat(left_output.items, right_output.v))
         ELSE JQSHException("integer")
    ELSE IF left_output.t = "Number" /\ right_output.t = "String"
    THEN IF IsIntegral(left_output)
         THEN String(Repeat(right_output.value, left_output.v))
         ELSE JQSHException("integer")
    ELSE IF left_output.t = "Number" /\ right_output.t = "Array"
    THEN IF IsIntegral(left_output)
         THEN Array(Repeat(right_output.items, left_output.v))
         ELSE JQSHException("integer")
    ELSE JQSHException("type")

Add_run(filter) ==
    LET pairs == output_pairs(filter.left_operand.output, filter.right_operand.output)
    IN  output_pairs_start \o
        [i \in 1..Len(pairs) |->
            Yield(IF pairs[i].tuple
                  THEN add(pairs[i].left_output, pairs[i].right_output)
                  ELSE pairs[i].output)]

Multiply_run(filter) ==
    LET pairs == output_pairs(filter.left_operand.output, filter.right_operand.output)
    IN  output_pairs_start \o
        [i \in 1..Len(pairs) |->
            Yield(IF pairs[i].tuple
                  THEN multiply(pairs[i].left_output, pairs[i].right_output)
                  ELSE pairs[i].output)]

\* Comma.run: the right operand is started first, the left one is yielded first.
\* A Pair that draws right's output to its end and keeps the value drawn last.
Pair_run_last(filter) ==
    LET left_output == filter.left_operand.output
        right_output == filter.right_operand.output
    IN  <<Fork, Start("right_operand", 0, OperandInput("right_operand")),
          Await("right_operand")>> \o
        IF right_output = <<>>
        THEN <<Yield(JQSHException("empty"))>>
        ELSE <<Start("left_operand", 0, OperandInput("left_operand")),
               Await("left_operand")>> \o
             [i \in 1..Len(left_output) |->
                Yield(Array(<<left_output[i], right_output[Len(right_output)]>>))]

\* Pair.run: next() of right's output, then one Array per value of left's.
\* Await stands for the draw from right's output: the output of an operand is
\* at hand once the operand has ended.
Pair_run(filter) ==
    LET left_output == filter.left_operand.output
        right_output == filter.right_operand.output
    IN  <<Fork, Start("right_operand", 0, OperandInput("right_operand")),
          Await("right_operand")>> \o
        IF right_output = <<>>
        THEN <<Yield(JQSHException("empty"))>>
        ELSE <<Start("left_operand", 0, OperandInput("left_operand")),
               Await("left_operand")>> \o
             [i \in 1..Len(left_output) |->
                Yield(Array(<<left_output[i], Head(right_output)>>))]

\* A Comma that drains its right operand first.
Comma_run_right_first(filter) ==
    <<Fork, Start("right_operand", 0, OperandInput("right_operand")),
      Start("left_operand", 0, OperandInput("left_operand")), Await("right_operand")>>
    \o YieldAll(filter.right_operand.output) \o <<Await("left_operand")>>
    \o YieldAll(filter.left_operand.output)

Comma_run(filter) ==
    <<Fork,
      Start("right_operand", 0, OperandInput("right_operand")),
      Start("left_operand", 0, OperandInput("left_operand")),
      Await("left_operand")>>
    \o YieldAll(filter.left_operand.output)
    \o <<Await("right_operand")>>
    \o YieldAll(filter.right_operand.output)

\* Object.push: a value that is no Array is a TypeError, an Array that is no
\* [key, value] pair a ValueError.
Object_push(value) ==
    IF value.t # "Array" THEN "TypeError"
    ELSE IF Len(value.items) # 2 THEN "ValueError"
    ELSE "pushed"

\* Object.run: the loop over the output of the attribute, then the Object.
RECURSIVE Object_run_loop(_, _)
Object_run_loop(values, pairs) ==
    IF values = <<>> THEN <<Yield(Object(pairs))>>
    ELSE LET value == Head(values) IN
         CASE Object_push(value) = "TypeError" ->
                <<Yield(JQSHException("type"))>> \o Object_run_loop(Tail(values), pairs)
           [] Object_push(value) = "ValueError" ->
                <<Yield(JQSHException("length"))>> \o Object_run_loop(Tail(values), pairs)
           [] OTHER ->
                Object_run_loop(Tail(values), SetKey(pairs, value.items[1], value.items[2]))

Object_run(filter) ==
    <<Start("attribute", 0, "input_channel")>> \o Object_run_loop(filter.attribute.output, <<>>)

\* Conditional.run from attribute i on; conditional is "unbound" until the
\* first condition has been evaluated.
RECURSIVE Conditional_run_loop(_, _, _)
Conditional_run_loop(attributes, i, conditional) ==
    IF i > Len(attributes) THEN <<>>
    ELSE LET attribute_name == attributes[i].name
             output == attributes[i].value.output
         IN
         CASE attribute_name \in {"if", "elif", "elseIf"} ->
                <<Start(attribute_name, i, "conditional_input")>> \o
                (IF output = <<>> THEN <<Yield(JQSHException("empty"))>>
                 ELSE IF IsException(output[1]) THEN <<Yield(output[1])>>
                 ELSE Conditional_run_loop(attributes, i + 1,
                                           IF bool(output[1]) THEN "true" ELSE "false"))
           [] attribute_name = "then" ->
                IF conditional = "unbound" THEN <<Raise>>
                ELSE IF conditional = "false"
                THEN Conditional_run_loop(attributes, i + 1, conditional)
                ELSE <<Start(attribute_name, i, "input_channel")>> \o YieldAll(output)
                     \o Conditional_run_loop(attributes, i + 1, conditional)
           [] attribute_name = "else" ->
                IF conditional = "unbound" THEN <<Raise>>
                ELSE IF conditional = "true"
                THEN Conditional_run_loop(attributes, i + 1, conditional)
                ELSE <<Start(attribute_name, i, "input_channel")>> \o YieldAll(output)
                     \o Conditional_run_loop(attributes, i + 1, conditional)
           [] OTHER -> <<Raise>>

Conditional_run(filter) == Conditional_run_loop(filter.attributes, 1, "unbound")

\* Try.run, the loop over the attributes: the handlers it registers. A handler
\* is kept as the index of its attribute, 0 for none.
NoHandlers == [n \in {} |-> 0]

RECURSIVE BindAll(_, _, _)
BindAll(exception_handlers, exception_names, handler) ==
    IF exception_names = <<>> THEN exception_handlers
    ELSE BindAll(Bind(exception_handlers, Head(exception_names), handler),
                 Tail(exception_names), handler)

RECURSIVE Try_run_attributes(_, _, _)
Try_run_attributes(attributes, i, registry) ==
    IF i > Len(attributes) THEN registry
    ELSE LET attribute_name == attributes[i].name
             attribute_value == attributes[i].value
         IN
         CASE attribute_name = "try" ->
                Try_run_attributes(attributes, i + 1, [registry EXCEPT !.try_block = i])
           [] attribute_name = "catch" ->
                IF sensible_string(attribute_value).TypeError
                THEN [registry EXCEPT !.sensibleString = TRUE]
                ELSE Try_run_attributes(attributes, i + 1,
                        [registry EXCEPT !.exception_names =
                            Append(@, sensible_string(attribute_value).value)])
           [] attribute_name = "then" ->
                Try_run_attributes(attributes, i + 1,
                    [registry EXCEPT !.exception_handlers =
                        BindAll(@, registry.exception_names, i)])
           [] attribute_name = "except" ->
                Try_run_attributes(attributes, i + 1, [registry EXCEPT !.default_handler = i])
           [] attribute_name = "else" ->
                Try_run_attributes(attributes, i + 1, [registry EXCEPT !.else_handler = i])
           [] OTHER -> Try_run_attributes(attributes, i + 1, registry)

\* A dispatch that asks for the default handler before the registered ones.
RECURSIVE Try_run_dispatch_default_first(_, _, _, _)
Try_run_dispatch_default_first(attributes, registry, try_output, i) ==
    IF i > Len(try_output)
    THEN IF registry.else_handler = 0
         THEN YieldAll(try_output)
         ELSE YieldAll(attributes[registry.else_handler].value.output)
    ELSE LET value == try_output[i] IN
         IF IsException(value)
         THEN IF registry.default_handler # 0
              THEN YieldAll(attributes[registry.default_handler].value.output)
              ELSE IF value.name \in DOMAIN registry.exception_handlers
              THEN YieldAll(attributes[registry.exception_handlers[value.name]].value.output)
              ELSE <<Yield(value)>>
         ELSE Try_run_dispatch_default_first(attributes, registry, try_output, i + 1)

\* A dispatch that yields the values of the try block as it meets them.
RECURSIVE Try_run_dispatch_streaming(_, _, _, _)
Try_run_dispatch_streaming(attributes, registry, try_output, i) ==
    IF i > Len(try_output)
    THEN IF registry.else_handler = 0
         THEN <<>>
         ELSE YieldAll(attributes[registry.else_handler].value.output)
    ELSE LET value == try_output[i] IN
         IF IsException(value)
         THEN <<Yield(value)>>
         ELSE <<Yield(value)>>
              \o Try_run_dispatch_streaming(attributes, registry, try_output, i + 1)

\* Try.run, the loop over the output of the try block, from value i on.
RECURSIVE Try_run_dispatch(_, _, _, _)
Try_run_dispatch(attributes, registry, try_output, i) ==
    IF i > Len(try_output)
    THEN IF registry.else_handler = 0
         THEN YieldAll(try_output)
         ELSE <<Start("else", registry.else_handler, "except_input")>>
              \o YieldAll(attributes[registry.else_handler].value.output)
    ELSE LET value == try_output[i] IN
         IF IsException(value)
         THEN IF value.name \in DOMAIN registry.exception_handlers
              THEN <<Start("then", registry.exception_handlers[value.name], "except_input")>>
                   \o YieldAll(attributes[registry.exception_handlers[value.name]].value.output)
              ELSE IF registry.default_handler # 0
              THEN <<Start("except", registry.default_handler, "except_input")>>
                   \o YieldAll(attributes[registry.default_handler].value.output)
              ELSE <<Yield(value)>>
         ELSE Try_run_dispatch(attributes, registry, try_output, i + 1)

Try_run(filter) ==
    LET registry == Try_run_attributes(filter.attributes, 1,
                        [exception_handlers |-> NoHandlers, default_handler |-> 0,
                         else_handler |-> 0, exception_names |-> <<>>, try_block |-> 0,
                         sensibleString |-> FALSE])
    IN  IF registry.sensibleString THEN <<Yield(JQSHException("sensibleString"))>>
        ELSE IF registry.try_block = 0 THEN <<Raise>>
        ELSE <<Start("try", registry.try_block, "try_input")>>
             \o Try_run_dispatch(filter.attributes, registry,
                                 filter.attributes[registry.try_block].value.output, 1)

\* Whether the generator reads its input channel to the end.
\* Apply.run_raw tells its forms by the class of attributes[0]: a Command
\* with arguments, or a builtin function with arguments.
IsCommand(filter) ==
    filter.cls = "Command" \/ (filter.cls = "Apply" /\ "spawn" \in DOMAIN filter)

IsCall(filter) == filter.cls = "Apply" /\ "attributes" \in DOMAIN filter

\* The lookup form of Apply, `.key`, the key given by what it outputs.
IsIndex(filter) == filter.cls = "Apply" /\ "key" \in DOMAIN filter

Consumes(filter) ==
    CASE filter.cls = "Parens" -> TRUE
      [] filter.cls = "Name" -> filter.name \in {"range", "explode"}
      [] IsCall(filter) -> nth_index(filter.attributes[2].output) = <<>>
      [] IsCommand(filter) ->
            ~sensible_string(filter.attribute).TypeError /\ filter.spawn = "ok"
      [] OTHER -> FALSE

Prologue(filter) ==
    CASE filter.cls = "NumberLiteral" -> <<Yield(Number(1))>>
      [] filter.cls = "Add" -> Add_run(filter)
      [] filter.cls = "Multiply" -> Multiply_run(filter)
      [] filter.cls = "Comma" -> Comma_run(filter)
      [] filter.cls = "Pair" -> Pair_run(filter)
      [] filter.cls = "Object" -> Object_run(filter)
      [] filter.cls = "Conditional" -> Conditional_run(filter)
      [] filter.cls = "Try" -> Try_run(filter)
      [] IsCall(filter) -> nth_index(filter.attributes[2].output)
      [] IsCommand(filter) ->
            IF sensible_string(filter.attribute).TypeError
            THEN <<Yield(JQSHException("sensibleString"))>>
            ELSE run_command_spawn(filter)
      [] OTHER -> <<>>

Body(filter, value) ==
    CASE filter.cls = "Parens" -> <<Yield(value)>>
      [] filter.cls = "Name" /\ filter.name = "range" -> range(value)
      [] filter.cls = "Name" /\ filter.name = "explode" -> explode(value)
      [] IsCall(filter) ->
            nth(Head(filter.attributes[2].output), cursor["helper_thread"], value)
      [] IsCommand(filter) -> run_command_write_value(value)
      [] OTHER -> <<>>

Epilogue(filter) ==
    IF IsCommand(filter) /\ Consumes(filter)
    THEN run_command_close \o run_command_read(filter)
    ELSE IF IsCall(filter) THEN nth_input_ended
    ELSE <<>>

\* Name alone overriding Filter.assign.
CanAssign_name_only(filter) == filter.cls = "Name"

\* Filter.assign raises NotImplementedError; Name and GlobalVariable override it.
CanAssign(filter) == filter.cls \in {"Name", "GlobalVariable"}

\* What a dict is after `d = copy.copy(namespace); d[name] = var`, were d the
\* same object as namespace.
Aliased(namespace, name, var) == Bind(namespace, name, var)

\* The same for the copy the code takes: the dict of the input channel is
\* another object, and the item set on the copy does not reach it.
Copied(namespace, name, var) == namespace

-----------------------------------------------------------------------------
(* SpecWorker: the threads of one filter evaluation.                       *)

Threads == {"FilterThread", "helper_thread", "handle_namespaces", "handle_context",
            "handle_values"}
Stopped(thread) == pc[thread] \in {"unstarted", "done", "dead"}

\* The filters whose run_raw is Filter.run_raw.
DefaultProtocol(filter) ==
    filter.cls \in {"NumberLiteral", "Parens", "Conditional", "Command",
                    "Add", "Multiply", "Comma", "Pair", "Object", "Try"}

InputValues == {Number(2), String(<<"a">>), JQSHException("key")}

NumberLiteral == [cls |-> "NumberLiteral"]
StringLiteral(text) == [cls |-> "StringLiteral", text |-> text]
Name(name) == [cls |-> "Name", name |-> name]

Commands(cls) ==
    {[cls |-> cls, attribute |-> StringLiteral("ls"), spawn |-> s, stdout |-> <<>>] :
        s \in {"FileNotFoundError", "PermissionError", "NotADirectoryError"}}
    \cup {[cls |-> cls, attribute |-> StringLiteral("ls"), spawn |-> "ok", stdout |-> o] :
        o \in {<<Number(1)>>, <<JQSHException("commandOutput")>>}}
    \cup {[cls |-> cls, attribute |-> NumberLiteral, spawn |-> "ok", stdout |-> <<>>]}

\* A builtin called with one argument, the argument given by what it outputs.
Calls ==
    {[cls |-> "Apply", attributes |-> <<Name("nth"), Operand(o)>>] :
        o \in {<<>>, <<Number(0)>>, <<Number(1), Number(0)>>, <<Decimal(15, 1)>>,
               <<String(<<"a">>)>>}}
    \cup {[cls |-> "Apply", attributes |-> <<f, Operand(<<Number(0)>>)>>] :
            f \in {Name("range"), Name("foo"), NumberLiteral}}
    \cup {[cls |-> "Apply",
           attributes |-> <<Name("nth"), Operand(<<Number(0)>>), Operand(<<Number(1)>>)>>]}

\* The catalog as imported, and the catalog after a variadic nth has been
\* registered as well (def_builtin applied to the function itself).
Catalogs == {def_builtin, [def_builtin EXCEPT !["nth"] = @ \cup {VarArgs}]}

GlobalVariables == {[cls |-> "GlobalVariable", attribute |-> a] : a \in {Name("g"), NumberLiteral}}

\* An assignment, its right operand given by what it outputs.
Assigns ==
    {[cls |-> "Assign", left |-> l, right_output |-> r] :
        l \in {Name("x"), NumberLiteral} \cup GlobalVariables,
        r \in {<<>>, <<Number(1), Number(2)>>, <<Number(1), JQSHException("type")>>}}

Keys ==
    {<<>>, <<String(<<"a">>)>>, <<String(<<"b">>), String(<<"a">>)>>, <<Number(0)>>,
     <<Number(1)>>, <<Number(2)>>, <<Number(0 - 1)>>, <<Decimal(15, 1)>>,
     <<JQSHException("key")>>}

Indexes == {[cls |-> "Apply", key |-> Operand(o)] : o \in Keys}

\* The input values of a lookup.
IndexedValues ==
    {Object(<<<<String(<<"a">>), Number(1)>>>>),
     Object(<<<<String(<<"b">>), Number(2)>>, <<String(<<"a">>), Number(3)>>>>),
     Array(<<Number(7), Number(8)>>), Array(<<>>), String(<<"a">>)}

WorkerFilters ==
    {NumberLiteral, [cls |-> "Parens"],
     [cls |-> "Conditional", attributes |-> <<[name |-> "while", value |-> Operand(<<>>)]>>]}
    \cup Commands("Command") \cup Commands("Apply") \cup Calls \cup Indexes
    \cup {Name(n) : n \in {"x", "range", "explode", "empty", "nth", "foo"}}
    \cup GlobalVariables
    \cup Assigns

LocalNamespaces == {EmptyNamespace, Bind(EmptyNamespace, "x", <<Number(4), Number(5)>>),
                    Bind(EmptyNamespace, "range", <<Number(4)>>)}
GlobalNamespaces == {EmptyNamespace, Bind(EmptyNamespace, "g", <<Number(1)>>)}

\* The context of a channel: whether the run is the top-level invocation.
Contexts == {"is_main", "not_main"}

UnsetScope == [local_set |-> FALSE, local_namespace |-> EmptyNamespace,
               global_set |-> FALSE, global_namespace |-> EmptyNamespace,
               context_set |-> FALSE, context |-> "is_main"]

\* An evaluation with no text to parse.
NoParser == [pc |-> "none", tree |-> [cls |-> "Filter"], from_tree |-> FALSE,
             source |-> <<>>, rest_string |-> <<>>, whitespace_prefix |-> <<>>,
             tokens |-> <<>>, result |-> [SyntaxError |-> FALSE, filter |-> [cls |-> "Filter"]]]

\* An evaluation that no Semicolon encloses.
NoSemicolon == [pc |-> "none", left_operand |-> NumberLiteral,
                right_operand |-> NumberLiteral, left_output |-> <<>>,
                left_scope |-> UnsetScope,
                output_channel |-> Channel, output_scope |-> UnsetScope, cursor |-> 0]

InitWorker ==
    /\ the_filter \in WorkerFilters
    /\ input_channel \in SeqsUpTo(IF IsIndex(the_filter) THEN IndexedValues ELSE InputValues,
                                  MaxInput)
    /\ input_scope \in [local_namespace : LocalNamespaces, global_namespace : GlobalNamespaces,
                        context : Contexts]
    /\ input_scope.context # "is_main" => the_filter.cls = "Assign"
    /\ input_scope.local_namespace # EmptyNamespace => the_filter.cls \in {"Name", "Assign"}
    /\ input_scope.global_namespace # EmptyNamespace =>
            the_filter.cls \in {"GlobalVariable", "Assign"}
    /\ bridge_channel = Channel
    /\ output_channel = Channel
    /\ pc = [t \in Threads |-> IF t = "FilterThread" THEN "run" ELSE "unstarted"]
    /\ cursor = [t \in Threads |-> 0]
    /\ pending = <<>>
    /\ throwing = [value |-> JQSHException("internal"), next |-> "done"]
    /\ raised = FALSE
    /\ output_scope = UnsetScope
    /\ started = <<>>
    /\ forks = [f \in {OperandInput(side) : side \in Sides} |-> 0]
    /\ operand_pc = [side \in Sides |-> "unstarted"]
    /\ seen = [side \in Sides |-> <<>>]
    /\ semicolon = NoSemicolon
    /\ parser = NoParser
    /\ popen = <<>>
    /\ builtin_functions \in Catalogs
    /\ builtin_functions # def_builtin => IsCall(the_filter)

\* throw(value) from the filter thread: push(value), then terminate().
Throw(value, next) ==
    /\ throwing' = [value |-> value, next |-> next]
    /\ pc' = [pc EXCEPT !["FilterThread"] = "throw_push"]

throw_push ==
    /\ pc["FilterThread"] = "throw_push"
    /\ output_channel' = push(output_channel, throwing.value)
    /\ pc' = [pc EXCEPT !["FilterThread"] =
                IF Fails(output_channel) THEN "dead" ELSE "throw_terminate"]
    /\ UNCHANGED evalVars
    /\ UNCHANGED <<the_filter, input_channel, bridge_channel, cursor, pending,
                   throwing, raised, input_scope, output_scope>>

throw_terminate ==
    /\ pc["FilterThread"] = "throw_terminate"
    /\ output_channel' = terminate(output_channel)
    /\ pc' = [pc EXCEPT !["FilterThread"] =
                IF Fails(output_channel) THEN "dead" ELSE throwing.next]
    /\ UNCHANGED evalVars
    /\ UNCHANGED <<the_filter, input_channel, bridge_channel, cursor, pending,
                   throwing, raised, input_scope, output_scope>>

(* Filter.run_raw and the wrapper of wrap_builtin: the forwarding thread.  *)

run_raw_start ==
    /\ pc["FilterThread"] = "run"
    /\ DefaultProtocol(the_filter)
    /\ pc' = [pc EXCEPT !["FilterThread"] = "for_input",
                        !["helper_thread"] = IF Consumes(the_filter) THEN "loop" ELSE "tail",
                        !["handle_namespaces"] = "push_namespaces"]
    /\ pending' = Prologue(the_filter)
    /\ UNCHANGED evalVars
    /\ UNCHANGED <<the_filter, input_channel, bridge_channel, output_channel, cursor,
                   throwing, raised, input_scope, output_scope>>

run_raw_for ==
    /\ pc["FilterThread"] = "for_input"
    /\ IF cursor["FilterThread"] < Len(input_channel)
       THEN LET value == input_channel[cursor["FilterThread"] + 1] IN
            /\ bridge_channel' = push(bridge_channel, value)
            /\ cursor' = [cursor EXCEPT !["FilterThread"] = @ + 1]
            /\ IF IsException(value)
               THEN Throw(value, "bridge_terminate")
               ELSE UNCHANGED <<pc, throwing>>
       ELSE /\ pc' = [pc EXCEPT !["FilterThread"] = "bridge_terminate"]
            /\ UNCHANGED <<bridge_channel, cursor, throwing>>
    /\ UNCHANGED evalVars
    /\ UNCHANGED <<the_filter, input_channel, output_channel, pending, raised,
                   input_scope, output_scope>>

wrapper_start ==
    /\ pc["FilterThread"] = "wrapper"
    /\ pc' = [pc EXCEPT !["FilterThread"] = "wrapper_for",
                        !["helper_thread"] = IF Consumes(the_filter) THEN "loop" ELSE "tail",
                        !["handle_namespaces"] = "push_namespaces"]
    /\ pending' = Prologue(the_filter)
    /\ UNCHANGED evalVars
    /\ UNCHANGED <<the_filter, input_channel, bridge_channel, output_channel, cursor,
                   throwing, raised, input_scope, output_scope>>

wrapper_for ==
    /\ pc["FilterThread"] = "wrapper_for"
    /\ IF cursor["FilterThread"] < Len(input_channel)
       THEN LET value == input_channel[cursor["FilterThread"] + 1] IN
            /\ cursor' = [cursor EXCEPT !["FilterThread"] = @ + 1]
            /\ IF IsException(value)
               THEN /\ output_channel' = push(output_channel, value)
                    /\ pc' = [pc EXCEPT !["FilterThread"] =
                                IF Fails(output_channel) THEN "dead" ELSE "bridge_terminate"]
                    /\ UNCHANGED bridge_channel
               ELSE /\ bridge_channel' = push(bridge_channel, value)
                    /\ UNCHANGED <<pc, output_channel>>
       ELSE /\ pc' = [pc EXCEPT !["FilterThread"] = "bridge_terminate"]
            /\ UNCHANGED <<bridge_channel, output_channel, cursor>>
    /\ UNCHANGED evalVars
    /\ UNCHANGED <<the_filter, input_channel, pending, throwing, raised,
                   input_scope, output_scope>>

bridge_terminate ==
    /\ pc["FilterThread"] = "bridge_terminate"
    /\ bridge_channel' = terminate(bridge_channel)
    /\ pc' = [pc EXCEPT !["FilterThread"] = "join_helper"]
    /\ UNCHANGED evalVars
    /\ UNCHANGED <<the_filter, input_channel, output_channel, cursor, pending,
                   throwing, raised, input_scope, output_scope>>

join_helper ==
    /\ pc["FilterThread"] = "join_helper"
    /\ Stopped("helper_thread")
    /\ pc' = [pc EXCEPT !["FilterThread"] = "join_namespaces"]
    /\ UNCHANGED evalVars
    /\ UNCHANGED <<the_filter, input_channel, bridge_channel, output_channel, cursor,
                   pending, throwing, raised, input_scope, output_scope>>

join_namespaces ==
    /\ pc["FilterThread"] = "join_namespaces"
    /\ Stopped("handle_namespaces")
    /\ pc' = [pc EXCEPT !["FilterThread"] = "output_terminate"]
    /\ UNCHANGED evalVars
    /\ UNCHANGED <<the_filter, input_channel, bridge_channel, output_channel, cursor,
                   pending, throwing, raised, input_scope, output_scope>>

output_terminate ==
    /\ pc["FilterThread"] = "output_terminate"
    /\ output_channel' = terminate(output_channel)
    /\ pc' = [pc EXCEPT !["FilterThread"] = IF Fails(output_channel) THEN "dead" ELSE "done"]
    /\ UNCHANGED evalVars
    /\ UNCHANGED <<the_filter, input_channel, bridge_channel, cursor, pending,
                   throwing, raised, input_scope, output_scope>>

(* The helper thread: run_thread of Filter.run_raw and of wrap_builtin.    *)

generator_next ==
    /\ pc["helper_thread"] = "loop"
    /\ pending = <<>>
    /\ cursor["helper_thread"] < Len(bridge_channel.values)
    /\ pending' = Body(the_filter, bridge_channel.values[cursor["helper_thread"] + 1])
    /\ cursor' = [cursor EXCEPT !["helper_thread"] = @ + 1]
    /\ UNCHANGED evalVars
    /\ UNCHANGED <<the_filter, input_channel, bridge_channel, output_channel, pc,
                   throwing, raised, input_scope, output_scope>>

generator_input_ended ==
    /\ pc["helper_thread"] = "loop"
    /\ pending = <<>>
    /\ cursor["helper_thread"] = Len(bridge_channel.values)
    /\ bridge_channel.terminated
    /\ pending' = Epilogue(the_filter)
    /\ pc' = [pc EXCEPT !["helper_thread"] = "tail"]
    /\ UNCHANGED evalVars
    /\ UNCHANGED <<the_filter, input_channel, bridge_channel, output_channel, cursor,
                   throwing, raised, input_scope, output_scope>>

\* A return inside the loop over the input.
generator_stop ==
    /\ pc["helper_thread"] = "loop"
    /\ pending # <<>>
    /\ Head(pending).op = "return"
    /\ pending' = <<>>
    /\ pc' = [pc EXCEPT !["helper_thread"] = "tail"]
    /\ UNCHANGED evalVars
    /\ UNCHANGED <<the_filter, input_channel, bridge_channel, output_channel, cursor,
                   throwing, raised, input_scope, output_scope>>

generator_return ==
    /\ pc["helper_thread"] = "tail"
    /\ pending = <<>>
    /\ pc' = [pc EXCEPT !["helper_thread"] = "done"]
    /\ UNCHANGED evalVars
    /\ UNCHANGED <<the_filter, input_channel, bridge_channel, output_channel, cursor,
                   pending, throwing, raised, input_scope, output_scope>>

\* Filter.run_raw.run_thread: push the value; stop after an exception. A push
\* that fails is caught like any failure of the generator.
run_thread_push ==
    /\ pc["helper_thread"] \in {"loop", "tail"}
    /\ DefaultProtocol(the_filter)
    /\ pending # <<>>
    /\ Head(pending).op = "yield"
    /\ output_channel' = push(output_channel, Head(pending).value)
    /\ IF Fails(output_channel)
       THEN /\ pc' = [pc EXCEPT !["helper_thread"] = "except_push"]
            /\ pending' = <<>>
       ELSE IF IsException(Head(pending).value)
            THEN /\ pc' = [pc EXCEPT !["helper_thread"] = "done"]
                 /\ pending' = <<>>
            ELSE /\ pending' = Tail(pending)
                 /\ UNCHANGED pc
    /\ UNCHANGED evalVars
    /\ UNCHANGED <<the_filter, input_channel, bridge_channel, cursor, throwing,
                   raised, input_scope, output_scope>>

run_thread_except ==
    /\ pc["helper_thread"] \in {"loop", "tail"}
    /\ DefaultProtocol(the_filter)
    /\ pending # <<>>
    /\ Head(pending).op = "raise"
    /\ raised' = TRUE
    /\ pending' = <<>>
    /\ pc' = [pc EXCEPT !["helper_thread"] = "except_push"]
    /\ UNCHANGED evalVars
    /\ UNCHANGED <<the_filter, input_channel, bridge_channel, output_channel, cursor,
                   throwing, input_scope, output_scope>>

run_thread_throw_push ==
    /\ pc["helper_thread"] = "except_push"
    /\ output_channel' = push(output_channel, JQSHException("internal"))
    /\ pc' = [pc EXCEPT !["helper_thread"] =
                IF Fails(output_channel) THEN "dead" ELSE "except_terminate"]
    /\ UNCHANGED evalVars
    /\ UNCHANGED <<the_filter, input_channel, bridge_channel, cursor, pending,
                   throwing, raised, input_scope, output_scope>>

run_thread_throw_terminate ==
    /\ pc["helper_thread"] = "except_terminate"
    /\ output_channel' = terminate(output_channel)
    /\ pc' = [pc EXCEPT !["helper_thread"] =
                IF Fails(output_channel) THEN "dead" ELSE "done"]
    /\ UNCHANGED evalVars
    /\ UNCHANGED <<the_filter, input_channel, bridge_channel, cursor, pending,
                   throwing, raised, input_scope, output_scope>>

\* wrap_builtin.wrapper.run_thread: push every value; nothing is caught.
wrapper_run_thread_push ==
    /\ pc["helper_thread"] \in {"loop", "tail"}
    /\ ~DefaultProtocol(the_filter)
    /\ pending # <<>>
    /\ Head(pending).op = "yield"
    /\ output_channel' = push(output_channel, Head(pending).value)
    /\ IF Fails(output_channel)
       THEN /\ pc' = [pc EXCEPT !["helper_thread"] = "dead"]
            /\ pending' = <<>>
       ELSE /\ pending' = Tail(pending)
            /\ UNCHANGED pc
    /\ UNCHANGED evalVars
    /\ UNCHANGED <<the_filter, input_channel, bridge_channel, cursor, throwing,
                   raised, input_scope, output_scope>>

wrapper_run_thread_raise ==
    /\ pc["helper_thread"] \in {"loop", "tail"}
    /\ ~DefaultProtocol(the_filter)
    /\ pending # <<>>
    /\ Head(pending).op = "raise"
    /\ raised' = TRUE
    /\ pending' = <<>>
    /\ pc' = [pc EXCEPT !["helper_thread"] = "dead"]
    /\ UNCHANGED evalVars
    /\ UNCHANGED <<the_filter, input_channel, bridge_channel, output_channel, cursor,
                   throwing, input_scope, output_scope>>

(* handle_namespaces: push_namespaces, or push_attribute for an assignment. *)

push_namespaces ==
    /\ pc["handle_namespaces"] = "push_namespaces"
    /\ output_scope' = [local_set |-> TRUE,
                        local_namespace |-> input_scope.local_namespace,
                        global_set |-> TRUE,
                        global_namespace |-> input_scope.global_namespace,
                        context_set |-> TRUE,
                        context |-> input_scope.context]
    /\ pc' = [pc EXCEPT !["handle_namespaces"] = "done"]
    /\ UNCHANGED evalVars
    /\ UNCHANGED <<the_filter, input_channel, bridge_channel, output_channel, cursor,
                   pending, throwing, raised, input_scope>>

\* Every binder forwarding the global namespace.
forwarded_namespace_global(target) == "global_namespace"

\* The namespace a binder does not change and forwards from its input:
\* handle_globals of Name.assign, handle_locals of GlobalVariable.assign.
forwarded_namespace(target) ==
    IF target.cls = "Name" THEN "global_namespace" ELSE "local_namespace"

push_attribute ==
    /\ pc["handle_namespaces"] = "push_attribute"
    /\ output_scope' =
            IF forwarded_namespace(the_filter.left) = "global_namespace"
            THEN [output_scope EXCEPT !.global_set = TRUE,
                                      !.global_namespace = input_scope.global_namespace]
            ELSE [output_scope EXCEPT !.local_set = TRUE,
                                      !.local_namespace = input_scope.local_namespace]
    /\ pc' = [pc EXCEPT !["handle_namespaces"] = "done"]
    /\ UNCHANGED evalVars
    /\ UNCHANGED <<the_filter, input_channel, bridge_channel, output_channel, cursor,
                   pending, throwing, raised, input_scope>>

\* handle_context: input_channel.push_attribute('context', output_channel).
push_context ==
    /\ pc["handle_context"] = "push_attribute"
    /\ output_scope' = [output_scope EXCEPT !.context_set = TRUE,
                                            !.context = input_scope.context]
    /\ pc' = [pc EXCEPT !["handle_context"] = "done"]
    /\ UNCHANGED evalVars
    /\ UNCHANGED <<the_filter, input_channel, bridge_channel, output_channel, cursor,
                   pending, throwing, raised, input_scope>>

(* Name.run_raw.                                                           *)

name_run_raw ==
    /\ pc["FilterThread"] = "run"
    /\ the_filter.cls = "Name"
    /\ \/ /\ the_filter.name \in DOMAIN input_scope.local_namespace
          /\ pc' = [pc EXCEPT !["FilterThread"] = "name_replay",
                              !["handle_namespaces"] = "push_namespaces"]
          /\ UNCHANGED throwing
       \/ /\ the_filter.name \notin DOMAIN input_scope.local_namespace
          /\ get_builtin(the_filter.name, 0).KeyError
          /\ Throw(IF the_filter.name \in DOMAIN builtin_functions
                   THEN JQSHException("numArgs") ELSE JQSHException("name"), "done")
       \/ /\ the_filter.name \notin DOMAIN input_scope.local_namespace
          /\ ~get_builtin(the_filter.name, 0).KeyError
          /\ pc' = [pc EXCEPT !["FilterThread"] = "wrapper"]
          /\ UNCHANGED throwing
    /\ UNCHANGED evalVars
    /\ UNCHANGED <<the_filter, input_channel, bridge_channel, output_channel, cursor,
                   pending, raised, input_scope, output_scope>>

name_replay ==
    /\ pc["FilterThread"] = "name_replay"
    /\ LET var == input_scope.local_namespace[the_filter.name] IN
       IF cursor["FilterThread"] < Len(var)
       THEN /\ output_channel' = push(output_channel, var[cursor["FilterThread"] + 1])
            /\ cursor' = [cursor EXCEPT !["FilterThread"] = @ + 1]
            /\ pc' = [pc EXCEPT !["FilterThread"] =
                        IF Fails(output_channel) THEN "dead" ELSE "name_replay"]
       ELSE /\ output_channel' = terminate(output_channel)
            /\ pc' = [pc EXCEPT !["FilterThread"] =
                        IF Fails(output_channel) THEN "dead" ELSE "join"]
            /\ UNCHANGED cursor
    /\ UNCHANGED evalVars
    /\ UNCHANGED <<the_filter, input_channel, bridge_channel, pending, throwing,
                   raised, input_scope, output_scope>>

\* handle_namespaces.join() (and, for an assignment, handle_values.join()).
join ==
    /\ pc["FilterThread"] = "join"
    /\ Stopped("handle_namespaces")
    /\ Stopped("handle_context")
    /\ Stopped("handle_values")
    /\ pc' = [pc EXCEPT !["FilterThread"] = "done"]
    /\ UNCHANGED evalVars
    /\ UNCHANGED <<the_filter, input_channel, bridge_channel, output_channel, cursor,
                   pending, throwing, raised, input_scope, output_scope>>

(* GlobalVariable.run_raw.                                                 *)

global_run_raw ==
    /\ pc["FilterThread"] = "run"
    /\ the_filter.cls = "GlobalVariable"
    /\ LET variable_name == sensible_string(the_filter.attribute) IN
       IF variable_name.TypeError
       THEN /\ throwing' = [value |-> JQSHException("sensibleString"),
                             next |-> "global_terminate"]
            /\ pc' = [pc EXCEPT !["FilterThread"] = "throw_push",
                                !["handle_namespaces"] = "push_namespaces"]
       ELSE IF variable_name.value \in DOMAIN input_scope.global_namespace
            THEN /\ pc' = [pc EXCEPT !["FilterThread"] = "global_replay",
                                     !["handle_namespaces"] = "push_namespaces"]
                 /\ UNCHANGED throwing
            ELSE /\ throwing' = [value |-> JQSHException("name"),
                                  next |-> "global_terminate"]
                 /\ pc' = [pc EXCEPT !["FilterThread"] = "throw_push",
                                     !["handle_namespaces"] = "push_namespaces"]
    /\ UNCHANGED evalVars
    /\ UNCHANGED <<the_filter, input_channel, bridge_channel, output_channel, cursor,
                   pending, raised, input_scope, output_scope>>

global_replay ==
    /\ pc["FilterThread"] = "global_replay"
    /\ LET var == input_scope.global_namespace[sensible_string(the_filter.attribute).value] IN
       IF cursor["FilterThread"] < Len(var)
       THEN /\ output_channel' = push(output_channel, var[cursor["FilterThread"] + 1])
            /\ cursor' = [cursor EXCEPT !["FilterThread"] = @ + 1]
            /\ pc' = [pc EXCEPT !["FilterThread"] =
                        IF Fails(output_channel) THEN "dead" ELSE "global_replay"]
       ELSE /\ pc' = [pc EXCEPT !["FilterThread"] = "global_terminate"]
            /\ UNCHANGED <<output_channel, cursor>>
    /\ UNCHANGED evalVars
    /\ UNCHANGED <<the_filter, input_channel, bridge_channel, pending, throwing,
                   raised, input_scope, output_scope>>

global_terminate ==
    /\ pc["FilterThread"] = "global_terminate"
    /\ output_channel' = terminate(output_channel)
    /\ pc' = [pc EXCEPT !["FilterThread"] = IF Fails(output_channel) THEN "dead" ELSE "join"]
    /\ UNCHANGED evalVars
    /\ UNCHANGED <<the_filter, input_channel, bridge_channel, cursor, pending,
                   throwing, raised, input_scope, output_scope>>

(* Apply.run_raw, a command with arguments: Command.run_command runs in    *)
(* the filter thread, and nothing catches what it raises.                  *)

apply_run_raw ==
    /\ pc["FilterThread"] = "run"
    /\ the_filter.cls = "Apply"
    /\ IsCommand(the_filter)
    /\ IF sensible_string(the_filter.attribute).TypeError
       THEN /\ Throw(JQSHException("sensibleString"), "done")
            /\ UNCHANGED pending
       ELSE /\ pending' = run_command_spawn(the_filter)
            /\ pc' = [pc EXCEPT !["FilterThread"] =
                        IF Consumes(the_filter) THEN "run_command" ELSE "run_command_tail"]
            /\ UNCHANGED throwing
    /\ UNCHANGED evalVars
    /\ UNCHANGED <<the_filter, input_channel, bridge_channel, output_channel, cursor,
                   raised, input_scope, output_scope>>

\* Apply.run_raw, a builtin function with arguments.
apply_call ==
    /\ pc["FilterThread"] = "run"
    /\ IsCall(the_filter)
    /\ LET function_name == sensible_string(the_filter.attributes[1])
           num_args == Len(the_filter.attributes) - 1
       IN  IF function_name.TypeError
           THEN Throw(JQSHException("sensibleString"), "done")
           ELSE IF get_builtin(function_name.value, num_args).KeyError
           THEN Throw(IF function_name.value \in DOMAIN builtin_functions
                      THEN JQSHException("numArgs") ELSE JQSHException("name"), "done")
           ELSE /\ pc' = [pc EXCEPT !["FilterThread"] = "wrapper"]
                /\ UNCHANGED throwing
    /\ UNCHANGED evalVars
    /\ UNCHANGED <<the_filter, input_channel, bridge_channel, output_channel, cursor,
                   pending, raised, input_scope, output_scope>>

\* popen.stdin.write for each input value, then the end marker and the read.
run_command_write ==
    /\ pc["FilterThread"] = "run_command"
    /\ pending = <<>>
    /\ IF cursor["FilterThread"] < Len(input_channel)
       THEN /\ cursor' = [cursor EXCEPT !["FilterThread"] = @ + 1]
            /\ pending' = run_command_write_value(input_channel[cursor["FilterThread"] + 1])
            /\ UNCHANGED pc
       ELSE /\ pending' = run_command_close \o run_command_read(the_filter)
            /\ pc' = [pc EXCEPT !["FilterThread"] = "run_command_tail"]
            /\ UNCHANGED cursor
    /\ UNCHANGED evalVars
    /\ UNCHANGED <<the_filter, input_channel, bridge_channel, output_channel,
                   throwing, raised, input_scope, output_scope>>

\* A call on a stream of the process, by the thread that runs run_command.
popen_call ==
    /\ \/ pc["helper_thread"] \in {"loop", "tail"}
       \/ pc["FilterThread"] \in {"run_command", "run_command_tail"}
    /\ pending # <<>>
    /\ Head(pending).op \in {"write", "close", "read"}
    /\ popen' = Append(popen, Head(pending))
    /\ pending' = Tail(pending)
    /\ UNCHANGED <<started, forks, operand_pc, seen, semicolon, parser, builtin_functions>>
    /\ UNCHANGED <<the_filter, input_channel, bridge_channel, output_channel, pc, cursor,
                   throwing, raised, input_scope, output_scope>>

apply_push ==
    /\ pc["FilterThread"] \in {"run_command", "run_command_tail"}
    /\ pending # <<>>
    /\ Head(pending).op = "yield"
    /\ output_channel' = push(output_channel, Head(pending).value)
    /\ pending' = Tail(pending)
    /\ pc' = [pc EXCEPT !["FilterThread"] = IF Fails(output_channel) THEN "dead" ELSE @]
    /\ UNCHANGED evalVars
    /\ UNCHANGED <<the_filter, input_channel, bridge_channel, cursor, throwing,
                   raised, input_scope, output_scope>>

apply_raise ==
    /\ pc["FilterThread"] \in {"run_command", "run_command_tail"}
    /\ pending # <<>>
    /\ Head(pending).op = "raise"
    /\ raised' = TRUE
    /\ pending' = <<>>
    /\ pc' = [pc EXCEPT !["FilterThread"] = "dead"]
    /\ UNCHANGED evalVars
    /\ UNCHANGED <<the_filter, input_channel, bridge_channel, output_channel, cursor,
                   throwing, input_scope, output_scope>>

\* key = next(self.attributes[1].start(key_input))
apply_index_key ==
    /\ pc["FilterThread"] = "run"
    /\ IsIndex(the_filter)
    /\ IF the_filter.key.output = <<>>
       THEN Throw(JQSHException("empty"), "done")
       ELSE /\ pc' = [pc EXCEPT !["FilterThread"] = "index_for"]
            /\ UNCHANGED throwing
    /\ UNCHANGED evalVars
    /\ UNCHANGED <<the_filter, input_channel, bridge_channel, output_channel, cursor,
                   pending, raised, input_scope, output_scope>>

\* for value in input_channel: push value[key], or throw and return.
apply_index_for ==
    /\ pc["FilterThread"] = "index_for"
    /\ IF cursor["FilterThread"] < Len(input_channel)
       THEN LET value == input_channel[cursor["FilterThread"] + 1]
                event == apply_index(Head(the_filter.key.output), value)
            IN  /\ cursor' = [cursor EXCEPT !["FilterThread"] = @ + 1]
                /\ IF event.op = "yield"
                   THEN /\ output_channel' = push(output_channel, event.value)
                        /\ pc' = [pc EXCEPT !["FilterThread"] =
                                    IF Fails(output_channel) THEN "dead" ELSE @]
                        /\ UNCHANGED throwing
                   ELSE /\ Throw(event.value, "done")
                        /\ UNCHANGED output_channel
       ELSE /\ output_channel' = terminate(output_channel)
            /\ pc' = [pc EXCEPT !["FilterThread"] =
                        IF Fails(output_channel) THEN "dead" ELSE "index_get_namespaces"]
            /\ UNCHANGED <<cursor, throwing>>
    /\ UNCHANGED evalVars
    /\ UNCHANGED <<the_filter, input_channel, bridge_channel, pending, raised,
                   input_scope, output_scope>>

\* output_channel.get_namespaces(input_channel), after the terminate.
apply_index_get_namespaces ==
    /\ pc["FilterThread"] = "index_get_namespaces"
    /\ output_scope' = [local_set |-> TRUE,
                        local_namespace |-> input_scope.local_namespace,
                        global_set |-> TRUE,
                        global_namespace |-> input_scope.global_namespace,
                        context_set |-> TRUE,
                        context |-> input_scope.context]
    /\ pc' = [pc EXCEPT !["FilterThread"] = "done"]
    /\ UNCHANGED evalVars
    /\ UNCHANGED <<the_filter, input_channel, bridge_channel, output_channel, cursor,
                   pending, throwing, raised, input_scope>>

apply_get_namespaces ==
    /\ pc["FilterThread"] = "run_command_tail"
    /\ pending = <<>>
    /\ output_scope' = [local_set |-> TRUE,
                        local_namespace |-> input_scope.local_namespace,
                        global_set |-> TRUE,
                        global_namespace |-> input_scope.global_namespace,
                        context_set |-> TRUE,
                        context |-> input_scope.context]
    /\ pc' = [pc EXCEPT !["FilterThread"] = "output_terminate"]
    /\ UNCHANGED evalVars
    /\ UNCHANGED <<the_filter, input_channel, bridge_channel, output_channel, cursor,
                   pending, throwing, raised, input_scope>>

(* Assign.run_raw, Filter.assign and Name.assign.                          *)

assign_run_raw ==
    /\ pc["FilterThread"] = "run"
    /\ the_filter.cls = "Assign"
    /\ IF CanAssign(the_filter.left)
       THEN /\ pc' = [pc EXCEPT !["FilterThread"] =
                            IF the_filter.left.cls = "Name"
                            THEN "assign_list" ELSE "global_assign_name",
                                !["handle_namespaces"] = "push_attribute",
                                !["handle_context"] = "push_attribute",
                                !["handle_values"] = "pull"]
            /\ UNCHANGED throwing
       ELSE Throw(JQSHException("assignment"), "done")
    /\ UNCHANGED evalVars
    /\ UNCHANGED <<the_filter, input_channel, bridge_channel, output_channel, cursor,
                   pending, raised, input_scope, output_scope>>

\* The first value of the channel only, were the capture to stop there.
list_first(value_channel) ==
    IF value_channel = <<>> THEN <<>> ELSE <<Head(value_channel)>>

\* var = list(value_channel): every value of the channel, up to its end.
list(value_channel) == value_channel

FirstException(values) ==
    values[CHOOSE i \in 1..Len(values) :
              /\ IsException(values[i])
              /\ \A j \in 1..(i - 1) : ~IsException(values[j])]

HasException(values) == \E i \in 1..Len(values) : IsException(values[i])

\* var = list(value_channel); the first exception in it is thrown.
name_assign_list ==
    /\ pc["FilterThread"] = "assign_list"
    /\ IF HasException(list(the_filter.right_output))
       THEN Throw(FirstException(list(the_filter.right_output)), "assign_set_locals")
       ELSE /\ pc' = [pc EXCEPT !["FilterThread"] = "assign_set_locals"]
            /\ UNCHANGED throwing
    /\ UNCHANGED evalVars
    /\ UNCHANGED <<the_filter, input_channel, bridge_channel, output_channel, cursor,
                   pending, raised, input_scope, output_scope>>

name_assign_set_locals ==
    /\ pc["FilterThread"] = "assign_set_locals"
    /\ output_scope' = [output_scope EXCEPT
            !.local_set = TRUE,
            !.local_namespace =
                IF HasException(list(the_filter.right_output))
                THEN input_scope.local_namespace
                ELSE Bind(input_scope.local_namespace, the_filter.left.name,
                          list(the_filter.right_output))]
    /\ input_scope' = [input_scope EXCEPT !.local_namespace =
            IF HasException(list(the_filter.right_output))
            THEN @
            ELSE Copied(@, the_filter.left.name, list(the_filter.right_output))]
    /\ pc' = [pc EXCEPT !["FilterThread"] = "assign_terminate"]
    /\ UNCHANGED evalVars
    /\ UNCHANGED <<the_filter, input_channel, bridge_channel, output_channel, cursor,
                   pending, throwing, raised>>

(* GlobalVariable.assign.                                                  *)

\* variable_name = self.attribute.sensible_string(input_channel)
global_assign_name ==
    /\ pc["FilterThread"] = "global_assign_name"
    /\ IF sensible_string(the_filter.left.attribute).TypeError
       THEN Throw(JQSHException("sensibleString"), "global_assign_set_globals")
       ELSE /\ pc' = [pc EXCEPT !["FilterThread"] = "global_assign_list"]
            /\ UNCHANGED throwing
    /\ UNCHANGED evalVars
    /\ UNCHANGED <<the_filter, input_channel, bridge_channel, output_channel, cursor,
                   pending, raised, input_scope, output_scope>>

global_assign_list ==
    /\ pc["FilterThread"] = "global_assign_list"
    /\ IF HasException(list(the_filter.right_output))
       THEN Throw(FirstException(list(the_filter.right_output)), "global_assign_set_globals")
       ELSE /\ pc' = [pc EXCEPT !["FilterThread"] = "global_assign_set_globals"]
            /\ UNCHANGED throwing
    /\ UNCHANGED evalVars
    /\ UNCHANGED <<the_filter, input_channel, bridge_channel, output_channel, cursor,
                   pending, raised, input_scope, output_scope>>

global_assign_set_globals ==
    /\ pc["FilterThread"] = "global_assign_set_globals"
    /\ LET variable_name == sensible_string(the_filter.left.attribute)
           bound == ~variable_name.TypeError /\ ~HasException(list(the_filter.right_output))
       IN  /\ output_scope' = [output_scope EXCEPT
                    !.global_set = TRUE,
                    !.global_namespace =
                        IF bound
                        THEN Bind(input_scope.global_namespace, variable_name.value,
                                  list(the_filter.right_output))
                        ELSE input_scope.global_namespace]
           /\ input_scope' = [input_scope EXCEPT !.global_namespace =
                    IF bound
                    THEN Copied(@, variable_name.value, list(the_filter.right_output))
                    ELSE @]
    /\ pc' = [pc EXCEPT !["FilterThread"] = "assign_terminate"]
    /\ UNCHANGED evalVars
    /\ UNCHANGED <<the_filter, input_channel, bridge_channel, output_channel, cursor,
                   pending, throwing, raised>>

name_assign_terminate ==
    /\ pc["FilterThread"] = "assign_terminate"
    /\ output_channel' = terminate(output_channel)
    /\ pc' = [pc EXCEPT !["FilterThread"] = IF Fails(output_channel) THEN "dead" ELSE "join"]
    /\ UNCHANGED evalVars
    /\ UNCHANGED <<the_filter, input_channel, bridge_channel, cursor, pending,
                   throwing, raised, input_scope, output_scope>>

\* handle_values: output_channel.pull(input_channel).
pull ==
    /\ pc["handle_values"] = "pull"
    /\ IF cursor["handle_values"] < Len(input_channel)
       THEN /\ output_channel' = push(output_channel, input_channel[cursor["handle_values"] + 1])
            /\ cursor' = [cursor EXCEPT !["handle_values"] = @ + 1]
            /\ pc' = [pc EXCEPT !["handle_values"] =
                        IF Fails(output_channel) THEN "dead" ELSE "pull"]
       ELSE /\ output_channel' = terminate(output_channel)
            /\ pc' = [pc EXCEPT !["handle_values"] =
                        IF Fails(output_channel) THEN "dead" ELSE "done"]
            /\ UNCHANGED cursor
    /\ UNCHANGED evalVars
    /\ UNCHANGED <<the_filter, input_channel, bridge_channel, pending, throwing,
                   raised, input_scope, output_scope>>

NextWorker ==
    \/ throw_push \/ throw_terminate
    \/ run_raw_start \/ run_raw_for
    \/ wrapper_start \/ wrapper_for
    \/ bridge_terminate \/ join_helper \/ join_namespaces \/ output_terminate
    \/ generator_next \/ generator_input_ended \/ generator_stop \/ generator_return
    \/ run_thread_push \/ run_thread_except
    \/ run_thread_throw_push \/ run_thread_throw_terminate
    \/ wrapper_run_thread_push \/ wrapper_run_thread_raise
    \/ push_namespaces \/ push_attribute \/ push_context
    \/ name_run_raw \/ name_replay \/ join
    \/ global_run_raw \/ global_replay \/ global_terminate
    \/ apply_run_raw \/ apply_call \/ run_command_write \/ popen_call
    \/ apply_push \/ apply_raise
    \/ apply_get_namespaces
    \/ apply_index_key \/ apply_index_for \/ apply_index_get_namespaces
    \/ assign_run_raw \/ name_assign_list \/ name_assign_set_locals
    \/ name_assign_terminate \/ pull
    \/ global_assign_name \/ global_assign_list \/ global_assign_set_globals

SpecWorker == InitWorker /\ [][NextWorker]_vars

-----------------------------------------------------------------------------
(* Claims on the worker protocol.                                          *)

AllStopped == \A thread \in Threads : Stopped(thread)

\* C1: every started filter worker eventually terminates its output channel:
\* once every thread of the evaluation has stopped, the output channel is
\* terminated.
C1_OutputEventuallyTerminated == AllStopped => output_channel.terminated

\* C2: no channel is terminated more than once and no value is pushed onto a
\* channel after that channel has been terminated.
C2_NoDoubleTerminateNoLatePush ==
    /\ output_channel.terminations <= 1
    /\ output_channel.rejected = 0
    /\ bridge_channel.terminations <= 1
    /\ bridge_channel.rejected = 0

\* C3: an unexpected failure raised inside a filter's evaluation logic appears
\* as an internal exception on that filter's output channel.
C3_FailureBecomesInternalException ==
    (AllStopped /\ raised) =>
        \E i \in 1..Len(output_channel.values) :
            output_channel.values[i] = JQSHException("internal")

\* C4: an exception emitted on the output channel is the last value of that
\* channel.
C4_ExceptionIsLastValue ==
    \A i \in 1..Len(output_channel.values) :
        IsException(output_channel.values[i]) => i = Len(output_channel.values)


-----------------------------------------------------------------------------
(* SpecEval: the evaluation of a filter with sub-filters. The filter       *)
(* thread and the helper thread are those of Filter.run_raw; the operands  *)
(* of an operator read the forks of the bridge channel.                    *)

\* Longest output of a sub-filter.
MaxOperand == 2

OperandValues == {Number(2), Decimal(15, 1), String(<<"a">>), Array(<<Number(1)>>)}
ElementValues == {Array(<<String(<<"a">>), Number(1)>>), Array(<<String(<<"a">>), Number(2)>>),
                  Array(<<Number(1)>>), Number(5)}

Operator(cls, left_output, right_output) ==
    [cls |-> cls, left_operand |-> Operand(left_output), right_operand |-> Operand(right_output)]

OperatorFilters ==
    {Operator(cls, l, r) : cls \in {"Add", "Multiply"},
                           l \in SeqsUpTo(OperandValues, MaxOperand),
                           r \in SeqsUpTo(OperandValues, MaxOperand)}
    \cup {Operator("Add", <<Object(<<<<String(<<"a">>), Number(1)>>>>)>>, <<r>>) :
            r \in {Object(<<<<String(<<"a">>), Number(2)>>, <<String(<<"b">>), Number(3)>>>>),
                   JQSHException("key")}}
    \cup {Operator("Comma", l, r) : l, r \in {<<>>, <<Number(1)>>, <<JQSHException("key"), Number(2)>>}}
    \cup {Operator("Comma", <<Number(1), Number(3)>>, <<Number(2), Number(4)>>)}

PairFilters ==
    {Operator("Pair", l, r) :
        l \in {<<>>, <<Number(1)>>, <<String(<<"a">>), Number(1)>>,
               <<JQSHException("key"), Number(2)>>},
        r \in {<<>>, <<Number(2)>>, <<Number(2), Number(3)>>, <<JQSHException("key")>>}}

\* The operators evaluated against an input that is not empty.
ForkFilters ==
    {Operator(cls, <<Number(1)>>, <<Number(2)>>) : cls \in {"Add", "Comma"}}

ObjectFilters ==
    {[cls |-> "Object", attribute |-> Operand(o)] : o \in SeqsUpTo(ElementValues, MaxOperand)}

Clause(name, output) == [name |-> name, value |-> Operand(output)]

ConditionOutputs ==
    {<<Boolean(TRUE)>>, <<Boolean(FALSE)>>, <<Number(0), Number(1)>>, <<>>, <<JQSHException("key")>>}

ConditionalFilters ==
    LET then1 == {Clause("then", o) : o \in {<<Number(1)>>, <<JQSHException("type"), Number(1)>>}}
        then2 == Clause("then", <<Number(2)>>)
        else3 == Clause("else", <<Number(3)>>)
    IN  {[cls |-> "Conditional", attributes |-> a] :
            a \in {<<Clause("if", c1), t1>> \o rest :
                    c1 \in ConditionOutputs, t1 \in then1,
                    rest \in {<<>>, <<else3>>, <<Clause("while", <<>>)>>}
                             \cup {<<Clause(e, c2), then2>> \o tail :
                                    e \in {"elif", "elseIf"}, c2 \in ConditionOutputs,
                                    tail \in {<<>>, <<else3>>}}}
                  \cup {<<Clause("then", <<Number(1)>>)>>}}

CatchNames == {StringLiteral("index"), Name("key"), NumberLiteral}
Catch(filter) == [name |-> "catch", value |-> filter]

TryOutputs ==
    {<<>>, <<Number(1), Number(2)>>, <<Number(1), JQSHException("index")>>,
     <<JQSHException("key")>>, <<JQSHException("type")>>,
     <<Number(1), JQSHException("index"), Number(2), JQSHException("key")>>}

TryFilters ==
    LET then1 == Clause("then", <<Number(10)>>)
        then2 == Clause("then", <<Number(20), JQSHException("type"), Number(21)>>)
        handlers == {<<>>}
            \cup {<<Catch(n1), then1>> : n1 \in CatchNames}
            \cup {<<Catch(n1), then1, Catch(n2), then2>> : n1, n2 \in CatchNames}
            \cup {<<Catch(n1), Catch(n2), then1>> : n1, n2 \in CatchNames}
    IN  {[cls |-> "Try", attributes |-> <<Clause("try", t)>> \o h \o e \o f] :
            t \in TryOutputs, h \in handlers,
            e \in {<<>>, <<Clause("except", <<Number(30)>>)>>},
            f \in {<<>>, <<Clause("else", <<Number(40), Number(41)>>)>>}}

EvalFilters ==
    OperatorFilters \cup PairFilters \cup ObjectFilters \cup ConditionalFilters
    \cup TryFilters

InitEval ==
    /\ \/ /\ the_filter \in EvalFilters
          /\ input_channel = <<>>
       \/ /\ the_filter \in ForkFilters
          /\ input_channel \in SeqsUpTo(InputValues, MaxInput) \ {<<>>}
    /\ input_scope = [local_namespace |-> EmptyNamespace, global_namespace |-> EmptyNamespace,
                      context |-> "is_main"]
    /\ bridge_channel = Channel
    /\ output_channel = Channel
    /\ pc = [t \in Threads |-> IF t = "FilterThread" THEN "run" ELSE "unstarted"]
    /\ cursor = [t \in Threads |-> 0]
    /\ pending = <<>>
    /\ throwing = [value |-> JQSHException("internal"), next |-> "done"]
    /\ raised = FALSE
    /\ output_scope = UnsetScope
    /\ started = <<>>
    /\ forks = [f \in {OperandInput(side) : side \in Sides} |-> 0]
    /\ operand_pc = [side \in Sides |-> "unstarted"]
    /\ seen = [side \in Sides |-> <<>>]
    /\ semicolon = NoSemicolon
    /\ parser = NoParser
    /\ popen = <<>>
    /\ builtin_functions = def_builtin

\* input_channel / 2: every fork replays the channel from its first value.
generator_fork ==
    /\ pc["helper_thread"] \in {"loop", "tail"}
    /\ pending # <<>>
    /\ Head(pending).op = "fork"
    /\ forks' = [f \in DOMAIN forks |-> 0]
    /\ pending' = Tail(pending)
    /\ UNCHANGED <<semicolon, parser, popen, builtin_functions>>
    /\ UNCHANGED <<the_filter, input_channel, bridge_channel, output_channel, pc, cursor,
                   throwing, raised, input_scope, output_scope, started, operand_pc, seen>>

\* sub_filter.start(channel): the sub-filter gets a thread of its own.
generator_start ==
    /\ pc["helper_thread"] \in {"loop", "tail"}
    /\ pending # <<>>
    /\ Head(pending).op = "start"
    /\ started' = Append(started, Head(pending))
    /\ operand_pc' = IF Head(pending).name \in Sides
                     THEN [operand_pc EXCEPT ![Head(pending).name] = "running"]
                     ELSE operand_pc
    /\ pending' = Tail(pending)
    /\ UNCHANGED <<semicolon, parser, popen, builtin_functions>>
    /\ UNCHANGED <<the_filter, input_channel, bridge_channel, output_channel, pc, cursor,
                   throwing, raised, input_scope, output_scope, forks, seen>>

\* Drawing from the output of an operand to its end.
generator_await ==
    /\ pc["helper_thread"] \in {"loop", "tail"}
    /\ pending # <<>>
    /\ Head(pending).op = "await"
    /\ operand_pc[Head(pending).name] = "done"
    /\ pending' = Tail(pending)
    /\ UNCHANGED <<semicolon, parser, popen, builtin_functions>>
    /\ UNCHANGED <<the_filter, input_channel, bridge_channel, output_channel, pc, cursor,
                   throwing, raised, input_scope, output_scope, started, forks,
                   operand_pc, seen>>

\* An operand draws the next value of the fork it was started on.
operand_pull ==
    \E side \in Sides :
        LET fork == OperandInput(side) IN
        /\ operand_pc[side] = "running"
        /\ forks[fork] < Len(bridge_channel.values)
        /\ seen' = [seen EXCEPT ![side] = Append(@, bridge_channel.values[forks[fork] + 1])]
        /\ forks' = [forks EXCEPT ![fork] = @ + 1]
        /\ UNCHANGED <<semicolon, parser, popen, builtin_functions>>
        /\ UNCHANGED <<the_filter, input_channel, bridge_channel, output_channel, pc, cursor,
                       pending, throwing, raised, input_scope, output_scope, started,
                       operand_pc>>

\* An operand finds its fork at the end of the stream.
operand_end ==
    \E side \in Sides :
        /\ operand_pc[side] = "running"
        /\ forks[OperandInput(side)] = Len(bridge_channel.values)
        /\ bridge_channel.terminated
        /\ operand_pc' = [operand_pc EXCEPT ![side] = "done"]
        /\ UNCHANGED <<semicolon, parser, popen, builtin_functions>>
        /\ UNCHANGED <<the_filter, input_channel, bridge_channel, output_channel, pc, cursor,
                       pending, throwing, raised, input_scope, output_scope, started,
                       forks, seen>>

NextEval ==
    \/ run_raw_start \/ run_raw_for \/ throw_push \/ throw_terminate
    \/ bridge_terminate \/ join_helper \/ join_namespaces \/ output_terminate
    \/ push_namespaces \/ generator_return
    \/ run_thread_push \/ run_thread_except
    \/ run_thread_throw_push \/ run_thread_throw_terminate
    \/ generator_fork \/ generator_start \/ generator_await
    \/ operand_pull \/ operand_end

SpecEval == InitEval /\ [][NextEval]_vars

-----------------------------------------------------------------------------
(* Claims on the evaluation of a filter with sub-filters.                  *)

IsPrefix(s, t) == Len(s) <= Len(t) /\ \A i \in 1..Len(s) : s[i] = t[i]
Last(s) == s[Len(s)]
Count(s, Test(_)) == Cardinality({i \in 1..Len(s) : Test(s[i])})

\* C5: the two forks of the channel an operator forks for its operands each
\* replay the values pushed to that channel, in push order, whatever the pace
\* of the two operands: what an operand has drawn is a prefix of the pushed
\* sequence, and the whole of it once the operand has reached the end.
C5_ForkedOperandsSeeTheSameSequence ==
    \A side \in Sides :
        /\ IsPrefix(seen[side], bridge_channel.values)
        /\ operand_pc[side] = "done" => seen[side] = bridge_channel.values

\* The right operand of an Add has drawn two values that the left operand had
\* drawn to the end before the right operand was started.
C5_witness ==
    /\ the_filter.cls = "Add"
    /\ operand_pc["left_operand"] = "done"
    /\ operand_pc["right_operand"] = "done"
    /\ Len(bridge_channel.values) >= 2
    /\ seen["left_operand"] = bridge_channel.values
    /\ seen["right_operand"] = bridge_channel.values

Malformed(value) == Object_push(value) # "pushed"

\* C7: an Object literal emits one exception for each malformed element of
\* its child's output and, after them, the Object of the valid elements, on its
\* output channel.
C7_ObjectEmittedAfterElementExceptions ==
    (the_filter.cls = "Object" /\ AllStopped)
    => /\ output_channel.values # <<>>
       /\ Last(output_channel.values) = Last(Yields(Object_run(the_filter)))
       /\ Len(output_channel.values) = Count(the_filter.attribute.output, Malformed) + 1

IsBranch(start) == start.name \in {"then", "else"}

\* C8: in a Conditional, at most one then/else branch is evaluated, and once
\* a branch has been evaluated no later condition or branch is.
C8_AtMostOneBranchEvaluated ==
    the_filter.cls = "Conditional"
    => \A i \in 1..Len(started) : IsBranch(started[i]) => i = Len(started)

\* The handler Try.run has registered for an exception name: the last `then`
\* that follows a `catch` of that name; 0 if there is none.
Greatest(S) == IF S = {} THEN 0 ELSE CHOOSE x \in S : \A y \in S : y <= x
CatchFails(attributes) ==
    \E i \in 1..Len(attributes) :
        attributes[i].name = "catch" /\ sensible_string(attributes[i].value).TypeError
RegisteredHandler(attributes, name) ==
    Greatest({j \in 1..Len(attributes) :
                /\ attributes[j].name = "then"
                /\ \E i \in 1..(j - 1) :
                    /\ attributes[i].name = "catch"
                    /\ sensible_string(attributes[i].value).value = name})
ClauseIndex(attributes, name) ==
    Greatest({j \in 1..Len(attributes) : attributes[j].name = name})
TryOutput(filter) == filter.attributes[ClauseIndex(filter.attributes, "try")].value.output

C10_TryWithoutException ==
    (/\ the_filter.cls = "Try"
     /\ ~CatchFails(the_filter.attributes)
     /\ ~HasException(TryOutput(the_filter)))
    => LET attributes == the_filter.attributes
           else_handler == ClauseIndex(attributes, "else")
           events == Try_run(the_filter)
       IN  /\ Yields(events) =
                IF else_handler # 0 THEN attributes[else_handler].value.output
                ELSE TryOutput(the_filter)
           /\ \A i \in 1..Len(events) :
                (events[i].op = "start" /\ events[i].name # "try")
                => /\ else_handler # 0
                   /\ events[i] = Start("else", else_handler, "except_input")

\* A Try with handlers and no else clause, whose try block produced two values
\* and no exception, has put these two values on its output channel.
C10_witness ==
    /\ the_filter.cls = "Try"
    /\ AllStopped
    /\ ~CatchFails(the_filter.attributes)
    /\ ClauseIndex(the_filter.attributes, "else") = 0
    /\ ClauseIndex(the_filter.attributes, "except") # 0
    /\ Len(TryOutput(the_filter)) = 2
    /\ ~HasException(TryOutput(the_filter))
    /\ output_channel.values = TryOutput(the_filter)


-----------------------------------------------------------------------------
(* SpecScope: Semicolon.run_raw. The worker variables hold the evaluation  *)
(* of the left operand, and then that of the right operand; what the left  *)
(* operand does after the right one was started reaches nothing but its    *)
(* own output channel, which nobody reads.                                 *)

Semicolon(left, right) ==
    [NoSemicolon EXCEPT !.pc = "run", !.left_operand = left, !.right_operand = right]

ScopeLefts == Assigns \cup {Name("x")}
ScopeRights == {Name("x"), Name("foo")} \cup GlobalVariables

InitScope ==
    /\ semicolon \in {Semicolon(left, right) : left \in ScopeLefts, right \in ScopeRights}
    /\ the_filter = semicolon.left_operand
    /\ input_channel \in SeqsUpTo({Number(3)}, MaxInput)
    /\ input_scope \in [local_namespace : LocalNamespaces, global_namespace : GlobalNamespaces,
                        context : {"is_main"}]
    /\ bridge_channel = Channel
    /\ output_channel = Channel
    /\ pc = [t \in Threads |-> "unstarted"]
    /\ cursor = [t \in Threads |-> 0]
    /\ pending = <<>>
    /\ throwing = [value |-> JQSHException("internal"), next |-> "done"]
    /\ raised = FALSE
    /\ output_scope = UnsetScope
    /\ started = <<>>
    /\ forks = [f \in {OperandInput(side) : side \in Sides} |-> 0]
    /\ operand_pc = [side \in Sides |-> "unstarted"]
    /\ seen = [side \in Sides |-> <<>>]
    /\ parser = NoParser
    /\ popen = <<>>
    /\ builtin_functions = def_builtin

\* right_input.get_namespaces(left_output): the scope the right operand is
\* evaluated in, given that of left's output and that of the Semicolon's input.
get_namespaces(left_scope, input) ==
    [local_namespace |-> left_scope.local_namespace,
     global_namespace |-> left_scope.global_namespace,
     context |-> left_scope.context]

\* The channel the loop of Semicolon.run_raw draws from.
semicolon_source_left(left_output, right_output) == left_output

semicolon_source(left_output, right_output) == right_output

\* left_output = self.left_operand.start(left_input)
semicolon_run_raw ==
    /\ semicolon.pc = "run"
    /\ semicolon' = [semicolon EXCEPT !.pc = "get_namespaces"]
    /\ pc' = [pc EXCEPT !["FilterThread"] = "run"]
    /\ UNCHANGED <<started, forks, operand_pc, seen, parser, popen, builtin_functions>>
    /\ UNCHANGED <<the_filter, input_channel, bridge_channel, output_channel, cursor,
                   pending, throwing, raised, input_scope, output_scope>>

\* right_input.get_namespaces(left_output), once the left operand has
\* attached both namespaces to its output channel, and
\* right_output = self.right_operand.start(right_input).
semicolon_start_right ==
    /\ semicolon.pc = "get_namespaces"
    /\ output_scope.local_set
    /\ output_scope.global_set
    /\ output_scope.context_set
    /\ semicolon' = [semicolon EXCEPT
            !.pc = "for",
            !.left_output = output_channel.values,
            !.left_scope = output_scope]
    /\ the_filter' = semicolon.right_operand
    /\ input_scope' = get_namespaces(output_scope, input_scope)
    /\ output_scope' = UnsetScope
    /\ output_channel' = Channel
    /\ bridge_channel' = Channel
    /\ pc' = [t \in Threads |-> IF t = "FilterThread" THEN "run" ELSE "unstarted"]
    /\ cursor' = [t \in Threads |-> 0]
    /\ pending' = <<>>
    /\ throwing' = [value |-> JQSHException("internal"), next |-> "done"]
    /\ UNCHANGED <<started, forks, operand_pc, seen, parser, popen, builtin_functions>>
    /\ UNCHANGED <<input_channel, raised>>

\* for value in right_output: output_channel.push(value)
semicolon_for ==
    /\ semicolon.pc = "for"
    /\ LET source == semicolon_source(semicolon.left_output, output_channel.values) IN
       IF semicolon.cursor < Len(source)
       THEN semicolon' = [semicolon EXCEPT
                !.output_channel = push(@, source[semicolon.cursor + 1]),
                !.cursor = @ + 1,
                !.pc = IF Fails(semicolon.output_channel) THEN "dead" ELSE @]
       ELSE /\ output_channel.terminated
            /\ semicolon' = [semicolon EXCEPT !.pc = "terminate"]
    /\ UNCHANGED <<started, forks, operand_pc, seen, parser, popen, builtin_functions>>
    /\ UNCHANGED workerVars

\* output_channel.terminate()
semicolon_terminate ==
    /\ semicolon.pc = "terminate"
    /\ semicolon' = [semicolon EXCEPT
            !.output_channel = terminate(@),
            !.pc = IF Fails(semicolon.output_channel) THEN "dead" ELSE "get_right_namespaces"]
    /\ UNCHANGED <<started, forks, operand_pc, seen, parser, popen, builtin_functions>>
    /\ UNCHANGED workerVars

\* output_channel.get_namespaces(right_output)
semicolon_get_namespaces ==
    /\ semicolon.pc = "get_right_namespaces"
    /\ output_scope.local_set
    /\ output_scope.global_set
    /\ output_scope.context_set
    /\ semicolon' = [semicolon EXCEPT !.output_scope = output_scope, !.pc = "done"]
    /\ UNCHANGED <<started, forks, operand_pc, seen, parser, popen, builtin_functions>>
    /\ UNCHANGED workerVars

NextScope ==
    \/ semicolon_run_raw \/ semicolon_start_right \/ semicolon_for
    \/ semicolon_terminate \/ semicolon_get_namespaces
    \/ throw_push \/ throw_terminate
    \/ push_namespaces \/ push_attribute \/ push_context
    \/ name_run_raw \/ name_replay \/ join
    \/ global_run_raw \/ global_replay \/ global_terminate
    \/ assign_run_raw \/ name_assign_list \/ name_assign_set_locals
    \/ name_assign_terminate \/ pull
    \/ global_assign_name \/ global_assign_list \/ global_assign_set_globals

SpecScope == InitScope /\ [][NextScope]_vars

-----------------------------------------------------------------------------
(* Claims on scopes and assignment.                                        *)

\* The right operand of the Semicolon has been started.
RightStarted == semicolon.pc \in {"for", "terminate", "get_right_namespaces", "done"}

\* The Semicolon is `name = right; name`, and the right operand of the
\* assignment output no exception.
AssignThenName ==
    /\ semicolon.left_operand.cls = "Assign"
    /\ semicolon.left_operand.left.cls = "Name"
    /\ ~HasException(semicolon.left_operand.right_output)
    /\ semicolon.right_operand = semicolon.left_operand.left

\* C11: after `name = right`, where right outputs v1..vk and no exception, the
\* Name evaluated in the scope the assignment produced (the right operand of a
\* Semicolon) outputs exactly v1..vk, in order: the scope binds the name to
\* the whole sequence, what the Semicolon has output is always a prefix of
\* it, and all of it once the Semicolon has terminated its output channel.
C11_AssignThenReplay ==
    (RightStarted /\ AssignThenName) =>
        /\ input_scope.local_namespace[semicolon.right_operand.name]
                = semicolon.left_operand.right_output
        /\ IsPrefix(semicolon.output_channel.values, semicolon.left_operand.right_output)
        /\ semicolon.output_channel.terminated =>
                semicolon.output_channel.values = semicolon.left_operand.right_output

\* `x = 1, 2; x` has output 1, 2.
C11_witness ==
    /\ AssignThenName
    /\ semicolon.pc = "done"
    /\ semicolon.left_operand.right_output = <<Number(1), Number(2)>>
    /\ semicolon.output_channel.values = <<Number(1), Number(2)>>

\* An assignment to a Name or to a GlobalVariable whose name can be told.
Assigning ==
    /\ the_filter.cls = "Assign"
    /\ CanAssign(the_filter.left)
    /\ the_filter.left.cls = "GlobalVariable" =>
            ~sensible_string(the_filter.left.attribute).TypeError

\* C12: when the right operand of an assignment (to a Name or to a
\* GlobalVariable) outputs an exception, that exception is forwarded on the
\* output channel of the Assign, and the namespaces attached to the output
\* channel are those of the input channel: the binding does not take effect.
C12_FailedAssignForwardsException ==
    (Assigning /\ HasException(the_filter.right_output) /\ AllStopped) =>
        /\ \E i \in 1..Len(output_channel.values) :
                output_channel.values[i] = FirstException(the_filter.right_output)
        /\ output_scope.local_set /\ output_scope.global_set
        /\ output_scope.local_namespace = input_scope.local_namespace
        /\ output_scope.global_namespace = input_scope.global_namespace

\* C13: an assignment whose right operand outputs no exception leaves no value
\* at all on its output channel, whatever the input, and attaches the
\* namespace with the new binding to it.
C13_AssignOutputsNoValues ==
    (Assigning /\ ~HasException(the_filter.right_output)) =>
        /\ output_channel.values = <<>>
        /\ AllStopped =>
            /\ output_scope.local_set /\ output_scope.global_set
            /\ IF the_filter.left.cls = "Name"
               THEN output_scope.local_namespace =
                        Bind(input_scope.local_namespace, the_filter.left.name,
                             the_filter.right_output)
               ELSE output_scope.global_namespace =
                        Bind(input_scope.global_namespace,
                             sensible_string(the_filter.left.attribute).value,
                             the_filter.right_output)

C15_SemicolonOutputsRightOnly ==
    RightStarted =>
        /\ IsPrefix(semicolon.output_channel.values, output_channel.values)
        /\ semicolon.output_channel.terminated =>
                semicolon.output_channel.values = output_channel.values
        /\ input_scope.local_namespace = semicolon.left_scope.local_namespace
        /\ input_scope.global_namespace = semicolon.left_scope.global_namespace
        /\ LET left == semicolon.left_operand IN
           (/\ left.cls = "Assign"
            /\ ~HasException(left.right_output)
            /\ left.left.cls = "GlobalVariable" =>
                    ~sensible_string(left.left.attribute).TypeError) =>
                IF left.left.cls = "Name"
                THEN input_scope.local_namespace[left.left.name] = left.right_output
                ELSE input_scope.global_namespace[sensible_string(left.left.attribute).value]
                        = left.right_output

\* left has emitted values, right has output other ones, and the Semicolon
\* has output those of right and ended.
C15_witness ==
    /\ semicolon.pc = "done"
    /\ semicolon.left_output # <<>>
    /\ semicolon.output_channel.values # <<>>
    /\ semicolon.output_channel.values # semicolon.left_output
    /\ semicolon.output_channel.values = output_channel.values
    /\ semicolon.left_operand.cls = "Assign"

-----------------------------------------------------------------------------
(* Claims on Comma and Pair.                                               *)

\* The position of the operand in the sequence of started sub-filters, 0 if
\* it has not been started.
StartedAt(side) ==
    IF \E i \in 1..Len(started) : started[i].name = side
    THEN CHOOSE i \in 1..Len(started) : started[i].name = side
    ELSE 0

\* C16: in the output of `left, right` every value of left precedes every
\* value of right, whichever operand is the faster: what is on the output
\* channel is always a prefix of left's output followed by right's, and so
\* is what Comma.run yields; and right is started before left, hence before
\* anything of left's output has been drawn.
C16_CommaLeftBeforeRight ==
    (the_filter.cls = "Comma" /\ ~HasException(input_channel)) =>
        LET left_output == the_filter.left_operand.output
            right_output == the_filter.right_operand.output
        IN  /\ Yields(Comma_run(the_filter)) = left_output \o right_output
            /\ IsPrefix(output_channel.values, left_output \o right_output)
            /\ StartedAt("left_operand") > 0 =>
                    /\ StartedAt("right_operand") > 0
                    /\ StartedAt("right_operand") < StartedAt("left_operand")
            /\ output_channel.values # <<>> => operand_pc["left_operand"] = "done"

\* right has reached the end of its input while left is still reading its own,
\* and nothing of right's output is on the output channel.
C16_witness ==
    /\ the_filter.cls = "Comma"
    /\ the_filter.left_operand.output # <<>>
    /\ the_filter.right_operand.output # <<>>
    /\ operand_pc["right_operand"] = "done"
    /\ operand_pc["left_operand"] = "running"
    /\ Len(seen["left_operand"]) < Len(seen["right_operand"])
    /\ output_channel.values = <<>>

\* C18: Pair uses the first value r of right's output and no other; when
\* right outputs nothing the output is exactly one empty exception; otherwise
\* it is one Array [l_i, r] per value l_i of left's output, in left's order.
\* This is what Pair.run yields, and what the output channel holds once the
\* evaluation has stopped.
C18_PairsWithFirstOfRight ==
    the_filter.cls = "Pair" =>
        LET left_output == the_filter.left_operand.output
            right_output == the_filter.right_operand.output
            expected ==
                IF right_output = <<>>
                THEN <<JQSHException("empty")>>
                ELSE [i \in 1..Len(left_output) |->
                        Array(<<left_output[i], right_output[1]>>)]
        IN  /\ Yields(Pair_run(the_filter)) = expected
            /\ IsPrefix(output_channel.values, expected)
            /\ (AllStopped /\ ~HasException(input_channel)) =>
                    /\ output_channel.values = expected
                    /\ output_channel.terminated

\* right has output two values, left two: two Arrays, both with right's first.
C18_witness ==
    /\ the_filter.cls = "Pair"
    /\ AllStopped
    /\ the_filter.left_operand.output = <<String(<<"a">>), Number(1)>>
    /\ the_filter.right_operand.output = <<Number(2), Number(3)>>
    /\ output_channel.values = <<Array(<<String(<<"a">>), Number(2)>>),
                                 Array(<<Number(1), Number(2)>>)>>

-----------------------------------------------------------------------------
(* Claims on names, assignment targets and exception kinds.                *)

\* The output channel holds, or will hold, exactly this one exception, and
\* is then terminated, once.
ThrowsOnly(kind) ==
    /\ IsPrefix(output_channel.values, <<JQSHException(kind)>>)
    /\ output_channel.terminations <= 1
    /\ AllStopped =>
        /\ output_channel.values = <<JQSHException(kind)>>
        /\ output_channel.terminated
        /\ output_channel.rejected = 0

\* C17: a Name bound in the local namespace of its input replays the bound
\* sequence, even when a builtin has the same name; an unbound Name that is a
\* builtin of arity 0 invokes the builtin (the wrapper starts its thread, and
\* no name or numArgs exception is thrown); an unbound Name registered at
\* other arities only yields exactly one numArgs exception; any other unbound
\* Name yields exactly one name exception; after the exception the output
\* channel is terminated.
C17_BareNameResolution ==
    the_filter.cls = "Name" =>
        LET name == the_filter.name
            replays == pc["FilterThread"] = "name_replay"
            throws == pc["FilterThread"] \in {"throw_push", "throw_terminate"}
            invoked == pc["helper_thread"] # "unstarted"
        IN  IF name \in DOMAIN input_scope.local_namespace
            THEN /\ IsPrefix(output_channel.values, input_scope.local_namespace[name])
                 /\ AllStopped => /\ output_channel.values = input_scope.local_namespace[name]
                                  /\ output_channel.terminated
                 /\ ~throws /\ ~invoked
            ELSE IF name \in DOMAIN builtin_functions /\ 0 \in builtin_functions[name]
            THEN /\ ~throws /\ ~replays
                 /\ AllStopped => invoked
            ELSE IF name \in DOMAIN builtin_functions
            THEN ThrowsOnly("numArgs") /\ ~replays /\ ~invoked
            ELSE ThrowsOnly("name") /\ ~replays /\ ~invoked

\* `range` is bound in the local namespace: the bound sequence is replayed,
\* the builtin is not invoked.
C17_witness ==
    /\ the_filter = Name("range")
    /\ "range" \in DOMAIN input_scope.local_namespace
    /\ AllStopped
    /\ output_channel.values = <<Number(4)>>
    /\ output_channel.terminated

\* C19: an Assign whose left operand is neither a Name nor a GlobalVariable
\* yields exactly one assignment exception on its output channel, which is
\* then terminated, and attaches no namespace, hence no binding, to it; an
\* Assign to a Name or a GlobalVariable never yields that exception.
C19_AssignmentException ==
    the_filter.cls = "Assign" =>
        IF the_filter.left.cls \in {"Name", "GlobalVariable"}
        THEN \A i \in 1..Len(output_channel.values) :
                output_channel.values[i] # JQSHException("assignment")
        ELSE /\ ThrowsOnly("assignment")
             /\ output_scope = UnsetScope
             /\ pc["handle_values"] = "unstarted"
             /\ pc["handle_namespaces"] = "unstarted"
             /\ pc["handle_context"] = "unstarted"

\* `1 = ...` on a non-empty input: the assignment exception and nothing else.
C19_witness ==
    /\ the_filter.cls = "Assign"
    /\ the_filter.left = NumberLiteral
    /\ input_channel # <<>>
    /\ AllStopped
    /\ output_channel.values = <<JQSHException("assignment")>>
    /\ output_channel.terminated

\* The kinds of exception the specification lists.
Taxonomy ==
    {"type", "length", "integer", "index", "key", "name", "numArgs", "empty",
     "sensibleString", "assignment", "path", "permission", "commandOutput",
     "unicode", "internal"}

\* C20: every Exception on the output channel of a filter or builtin has a
\* kind of the taxonomy.
C20_ClosedTaxonomy ==
    \A i \in 1..Len(output_channel.values) :
        IsException(output_channel.values[i]) =>
            output_channel.values[i].name \in Taxonomy

-----------------------------------------------------------------------------
(* SpecParse: jqsh.parser. A text is a sequence of characters; a token      *)
(* list holds tokens and, once parens have been parsed, filters.           *)

\* Longest text given to the tokenizer as it is.
MaxText == 3

BOM == "BOM"
Whitespace == {" ", "\t", "\n", "\r", "\f"}

\* Filter trees, as the parser builds them and as __str__ prints them.
Filter == [cls |-> "Filter"]
Parens(cls, attribute) == [cls |-> cls, attribute |-> attribute]
Tree(cls, left, right) == [cls |-> cls, left_operand |-> left, right_operand |-> right]

operator_string(cls) ==
    CASE cls = "Pipe" -> <<" ", "|", " ">>
      [] cls = "Add" -> <<" ", "+", " ">>
      [] cls = "Comma" -> <<",", " ">>
      [] cls = "Apply" -> <<".">>
      [] cls = "Assign" -> <<" ", "=", " ">>
      [] cls = "Multiply" -> <<" ", "*", " ">>
      [] cls = "Pair" -> <<":", " ">>
      [] cls = "Semicolon" -> <<";", " ">>
      [] cls = "Command" -> <<"!">>
      [] cls = "GlobalVariable" -> <<"$">>

\* __str__ of a filter: the filter's representation in jqsh.
RECURSIVE str(_)
str(filter) ==
    CASE filter.cls = "Filter" -> <<>>
      [] filter.cls = "Parens" -> <<"(">> \o str(filter.attribute) \o <<")">>
      [] filter.cls = "Array" -> <<"[">> \o str(filter.attribute) \o <<"]">>
      [] filter.cls = "Object" -> <<"{">> \o str(filter.attribute) \o <<"}">>
      [] filter.cls = "Name" -> <<filter.name>>
      [] filter.cls = "NumberLiteral" -> <<"1">>
      [] filter.cls \in {"Command", "GlobalVariable"} ->
            operator_string(filter.cls) \o str(filter.attribute)
      [] OTHER -> str(filter.left_operand) \o operator_string(filter.cls)
                    \o str(filter.right_operand)

\* symbols, matching_parens and paren_filters.
symbols(character) ==
    CASE character = "(" -> "open_paren"
      [] character = ")" -> "close_paren"
      [] character = "[" -> "open_array"
      [] character = "]" -> "close_array"
      [] OTHER -> "none"

matching_parens(type) ==
    CASE type = "open_array" -> "close_array"
      [] type = "open_paren" -> "close_paren"

paren_filters(type) ==
    CASE type = "open_array" -> "Array"
      [] type = "open_paren" -> "Parens"

\* A token that keeps its text alone, without the whitespace before it.
Token_text_only(type, string, text) == [type |-> type, string |-> text, text |-> text]

\* A token; text is empty for the simple tokens (None in the code).
Token(type, string, text) == [type |-> type, string |-> string, text |-> text]

IsToken(item) == "type" \in DOMAIN item

SyntaxError == [SyntaxError |-> TRUE, filter |-> Filter]
Parsed(filter) == [SyntaxError |-> FALSE, filter |-> filter]

\* The comment that starts rest_string: its characters up to the newline.
RECURSIVE comment(_)
comment(rest_string) ==
    IF rest_string = <<>> \/ Head(rest_string) = "\n" THEN <<>>
    ELSE <<Head(rest_string)>> \o comment(Tail(rest_string))

\* parse: comments dropped, illegal tokens refused, the trailing whitespace
\* merged into the token before it, every outermost pair of parens replaced
\* by the filter parsed from what it encloses (the list is walked from its
\* end), and the one filter that is left returned.
RECURSIVE parse(_)
RECURSIVE parse_parens(_, _, _, _)

parse_parens(tokens, i, paren_balance, paren_start) ==
    IF i = 0
    THEN [SyntaxError |-> FALSE, tokens |-> tokens, paren_balance |-> paren_balance]
    ELSE LET token == tokens[i] IN
         IF ~IsToken(token)
         THEN parse_parens(tokens, i - 1, paren_balance, paren_start)
         ELSE IF token.type \in {"close_array", "close_paren"}
         THEN parse_parens(tokens, i - 1, paren_balance + 1,
                           IF paren_balance = 0 THEN i ELSE paren_start)
         ELSE IF token.type \in {"open_array", "open_paren"}
         THEN IF paren_balance - 1 < 0
              THEN [SyntaxError |-> TRUE, tokens |-> tokens, paren_balance |-> 0]
              ELSE IF paren_balance - 1 = 0
              THEN IF matching_parens(token.type) = tokens[paren_start].type
                   THEN LET inside == parse(SubSeq(tokens, i + 1, paren_start - 1)) IN
                        IF inside.SyntaxError
                        THEN [SyntaxError |-> TRUE, tokens |-> tokens, paren_balance |-> 0]
                        ELSE parse_parens(
                                SubSeq(tokens, 1, i - 1)
                                    \o <<Parens(paren_filters(token.type), inside.filter)>>
                                    \o SubSeq(tokens, paren_start + 1, Len(tokens)),
                                i - 1, 0, 0)
                   ELSE [SyntaxError |-> TRUE, tokens |-> tokens, paren_balance |-> 0]
              ELSE parse_parens(tokens, i - 1, paren_balance - 1, paren_start)
         ELSE parse_parens(tokens, i - 1, paren_balance, paren_start)

parse(token_list) ==
    LET NoComment(token) == ~IsToken(token) \/ token.type # "comment"
        tokens == SelectSeq(token_list, NoComment)
        last == tokens[Len(tokens)]
        merged ==
            IF IsToken(last) /\ last.type = "trailing_whitespace"
            THEN [i \in 1..(Len(tokens) - 1) |->
                    IF i = Len(tokens) - 1
                    THEN [tokens[i] EXCEPT !.string = @ \o last.string]
                    ELSE tokens[i]]
            ELSE tokens
        parens == parse_parens(merged, Len(merged), 0, 0)
    IN  IF tokens = <<>> THEN Parsed(Filter)
        ELSE IF \E i \in 1..Len(tokens) : IsToken(tokens[i]) /\ tokens[i].type = "illegal"
        THEN SyntaxError
        ELSE IF IsToken(last) /\ last.type = "trailing_whitespace" /\ Len(tokens) = 1
        THEN Parsed(Filter)
        ELSE IF parens.SyntaxError \/ parens.paren_balance # 0 THEN SyntaxError
        ELSE IF Len(parens.tokens) = 1 /\ ~IsToken(parens.tokens[1])
        THEN Parsed(parens.tokens[1])
        ELSE SyntaxError

\* The filter trees whose textual form is parsed back.
Leaves == {Filter, [cls |-> "NumberLiteral"], [cls |-> "Name", name |-> "x"]}

Trees1 ==
    Leaves
    \cup {Parens(cls, attribute) : cls \in {"Parens", "Array", "Object"}, attribute \in Leaves}
    \cup {Parens(cls, [cls |-> "Name", name |-> "x"]) : cls \in {"Command", "GlobalVariable"}}
    \cup {Tree(cls, left, right) :
            cls \in {"Pipe", "Add", "Comma", "Apply", "Assign", "Multiply", "Pair", "Semicolon"},
            left \in {[cls |-> "Name", name |-> "x"]},
            right \in {[cls |-> "NumberLiteral"]}}

Trees == Trees1 \cup {Parens(cls, attribute) : cls \in {"Parens", "Array"}, attribute \in Trees1}

Alphabet == {"(", ")", "[", "]", " ", "\n", "#", "1", BOM}

InitParse ==
    /\ \/ \E tree \in Trees :
            parser = [NoParser EXCEPT !.pc = "str", !.tree = tree, !.from_tree = TRUE]
       \/ \E text \in SeqsUpTo(Alphabet, MaxText) :
            parser = [NoParser EXCEPT !.pc = "tokenize_start", !.source = text,
                                      !.rest_string = text]
    /\ the_filter = NumberLiteral
    /\ input_channel = <<>>
    /\ input_scope = [local_namespace |-> EmptyNamespace, global_namespace |-> EmptyNamespace,
                      context |-> "is_main"]
    /\ bridge_channel = Channel
    /\ output_channel = Channel
    /\ pc = [t \in Threads |-> "unstarted"]
    /\ cursor = [t \in Threads |-> 0]
    /\ pending = <<>>
    /\ throwing = [value |-> JQSHException("internal"), next |-> "done"]
    /\ raised = FALSE
    /\ output_scope = UnsetScope
    /\ started = <<>>
    /\ forks = [f \in {OperandInput(side) : side \in Sides} |-> 0]
    /\ operand_pc = [side \in Sides |-> "unstarted"]
    /\ seen = [side \in Sides |-> <<>>]
    /\ semicolon = NoSemicolon
    /\ popen = <<>>
    /\ builtin_functions = def_builtin

\* str(filter): the text handed to parse.
filter_str ==
    /\ parser.pc = "str"
    /\ parser' = [parser EXCEPT !.pc = "tokenize_start", !.source = str(parser.tree),
                                !.rest_string = str(parser.tree)]
    /\ UNCHANGED <<workerVars, started, forks, operand_pc, seen, semicolon, popen,
                   builtin_functions>>

\* tokenize, up to its loop: a leading byte-order mark is whitespace.
tokenize_start ==
    /\ parser.pc = "tokenize_start"
    /\ parser' =
        IF parser.rest_string # <<>> /\ Head(parser.rest_string) = BOM
        THEN [parser EXCEPT !.pc = "tokenize",
                            !.whitespace_prefix = @ \o <<Head(parser.rest_string)>>,
                            !.rest_string = Tail(@)]
        ELSE [parser EXCEPT !.pc = "tokenize"]
    /\ UNCHANGED <<workerVars, started, forks, operand_pc, seen, semicolon, popen,
                   builtin_functions>>

\* One turn of the loop of tokenize.
tokenize_while ==
    /\ parser.pc = "tokenize"
    /\ parser.rest_string # <<>>
    /\ LET rest_string == parser.rest_string
           whitespace_prefix == parser.whitespace_prefix
           c == Head(rest_string)
       IN  parser' =
            IF c \in Whitespace
            THEN [parser EXCEPT !.whitespace_prefix = @ \o <<c>>,
                                !.rest_string = Tail(rest_string)]
            ELSE IF c = "#"
            THEN LET text == comment(Tail(rest_string)) IN
                 [parser EXCEPT
                    !.tokens = Append(@, Token("comment", whitespace_prefix \o <<"#">> \o text,
                                               text)),
                    !.whitespace_prefix = <<>>,
                    !.rest_string = SubSeq(rest_string, Len(text) + 2, Len(rest_string))]
            ELSE IF symbols(c) # "none"
            THEN [parser EXCEPT
                    !.tokens = Append(@, Token(symbols(c), whitespace_prefix \o <<c>>, <<>>)),
                    !.whitespace_prefix = <<>>,
                    !.rest_string = Tail(rest_string)]
            ELSE [parser EXCEPT
                    !.tokens = Append(@, Token("illegal", whitespace_prefix \o rest_string,
                                               rest_string)),
                    !.whitespace_prefix = <<>>,
                    !.rest_string = <<>>]
    /\ UNCHANGED <<workerVars, started, forks, operand_pc, seen, semicolon, popen,
                   builtin_functions>>

\* The end of tokenize: what is left of the whitespace is a token of its own.
tokenize_end ==
    /\ parser.pc = "tokenize"
    /\ parser.rest_string = <<>>
    /\ parser' =
        IF parser.whitespace_prefix # <<>>
        THEN [parser EXCEPT
                !.tokens = Append(@, Token("trailing_whitespace", parser.whitespace_prefix,
                                           <<>>)),
                !.pc = "parse"]
        ELSE [parser EXCEPT !.pc = "parse"]
    /\ UNCHANGED <<workerVars, started, forks, operand_pc, seen, semicolon, popen,
                   builtin_functions>>

\* parse(tokens)
parse_tokens ==
    /\ parser.pc = "parse"
    /\ parser' = [parser EXCEPT !.result = parse(parser.tokens), !.pc = "done"]
    /\ UNCHANGED <<workerVars, started, forks, operand_pc, seen, semicolon, popen,
                   builtin_functions>>

NextParse ==
    filter_str \/ tokenize_start \/ tokenize_while \/ tokenize_end \/ parse_tokens

SpecParse == InitParse /\ [][NextParse]_vars

-----------------------------------------------------------------------------
(* Claims on the parser.                                                   *)

\* C21: the textual form of every filter tree parses, and parses to the same
\* tree.
C21_RoundTrip ==
    (parser.from_tree /\ parser.pc = "done") =>
        /\ ~parser.result.SyntaxError
        /\ parser.result.filter = parser.tree

-----------------------------------------------------------------------------
(* Claims on handlers, operands and the forwarding of exceptions.          *)

Least(S) == IF S = {} THEN 0 ELSE CHOOSE x \in S : \A y \in S : x <= y

\* The handler of the pair `catch name then handler`: the first `then` after
\* the first `catch` of that name; 0 if there is none.
PairHandler(attributes, name) ==
    Least({j \in 1..Len(attributes) :
            /\ attributes[j].name = "then"
            /\ \E i \in 1..(j - 1) :
                /\ attributes[i].name = "catch"
                /\ sensible_string(attributes[i].value).value = name})

\* No two `catch` clauses name the same kind.
DistinctKinds(attributes) ==
    \A i, j \in 1..Len(attributes) :
        (/\ i # j
         /\ attributes[i].name = "catch"
         /\ attributes[j].name = "catch")
        => sensible_string(attributes[i].value).value #
           sensible_string(attributes[j].value).value

\* C22: in a Try with handler pairs `catch k1 then h1 catch k2 then h2` for
\* distinct kinds, an exception of kind k1 in the output of the try block is
\* handled by h1 and one of kind k2 by h2: Try.run yields the output of the
\* handler of the pair that names the kind of the first exception.
C22_EachKindKeepsItsHandler ==
    (/\ the_filter.cls = "Try"
     /\ ~CatchFails(the_filter.attributes)
     /\ DistinctKinds(the_filter.attributes)
     /\ HasException(TryOutput(the_filter))
     /\ PairHandler(the_filter.attributes,
                    FirstException(TryOutput(the_filter)).name) # 0)
    => Yields(Try_run(the_filter)) =
            the_filter.attributes[
                PairHandler(the_filter.attributes,
                            FirstException(TryOutput(the_filter)).name)].value.output

\* The operator is about to draw the output of an operand to its end.
Draining(side) ==
    /\ pending # <<>>
    /\ Head(pending) = Await(side)
    /\ ~(the_filter.cls = "Pair" /\ side = "right_operand")

\* C23: Add, Multiply, Comma and Pair start both operands before they wait
\* for the output of either to terminate: whenever the operator is about to
\* draw an operand's output to its end, the other operand has been started.
\* (Pair's draw of the first value of right's output is no such wait.)
C23_BothOperandsStartedBeforeWait ==
    the_filter.cls \in {"Add", "Multiply", "Comma", "Pair"} =>
        \A side \in Sides :
            Draining(side) => \A other \in Sides : operand_pc[other] # "unstarted"

\* The filter is a builtin evaluated through the wrapper of wrap_builtin.
ThroughWrapper ==
    \/ /\ the_filter.cls = "Name"
       /\ the_filter.name \notin DOMAIN input_scope.local_namespace
       /\ ~get_builtin(the_filter.name, 0).KeyError
    \/ /\ IsCall(the_filter)
       /\ ~sensible_string(the_filter.attributes[1]).TypeError
       /\ ~get_builtin(sensible_string(the_filter.attributes[1]).value,
                       Len(the_filter.attributes) - 1).KeyError

\* The number of input values up to and including the first Exception.
UpToFirstException(values) ==
    Least({i \in 1..Len(values) : IsException(values[i])})

\* C24: when an Exception arrives on the input of a filter run by
\* Filter.run_raw or by the builtin wrapper, the filter draws no input beyond
\* it and, whatever the interleaving of the forwarding thread and the helper
\* thread, once all threads have stopped that exception is on the output
\* channel and is its last value (evaluations in which the filter's own logic
\* fails are left aside).
C24_InputExceptionForwardedLast ==
    (/\ DefaultProtocol(the_filter) \/ ThroughWrapper
     /\ HasException(input_channel)
     /\ ~raised
     /\ AllStopped)
    => /\ cursor["FilterThread"] = UpToFirstException(input_channel)
       /\ output_channel.values # <<>>
       /\ output_channel.values[Len(output_channel.values)] =
            FirstException(input_channel)

-----------------------------------------------------------------------------
(* Claims on the scope a filter attaches to its output channel.            *)

\* An assignment that binds: the target can be assigned to, its name can be
\* told and the value sequence holds no exception.
Binds ==
    /\ the_filter.cls = "Assign"
    /\ the_filter.left.cls \in {"Name", "GlobalVariable"}
    /\ the_filter.left.cls = "GlobalVariable" =>
            ~sensible_string(the_filter.left.attribute).TypeError
    /\ ~HasException(the_filter.right_output)

\* The name an assignment binds.
BoundName ==
    IF the_filter.left.cls = "Name" THEN the_filter.left.name
    ELSE sensible_string(the_filter.left.attribute).value

\* Every name but the given one has in the namespace `after` the binding it
\* has in `before`, and `after` binds nothing else.
KeepsOthers(before, after, name) ==
    /\ DOMAIN after \ {name} = DOMAIN before \ {name}
    /\ \A other \in DOMAIN before \ {name} : after[other] = before[other]

\* C25: a binding filter changes exactly one field of the scope. Once all
\* threads of an Assign that binds have stopped, the context of the output
\* channel is that of the input channel; after an Assign to a Name so is the
\* global namespace, after an Assign to a GlobalVariable so is the local
\* namespace; and in the namespace that changed every name other than the
\* assigned one keeps its input binding.
C25_BinderChangesOneField ==
    (Binds /\ AllStopped) =>
        /\ output_scope.context_set
        /\ output_scope.context = input_scope.context
        /\ output_scope.local_set
        /\ output_scope.global_set
        /\ IF the_filter.left.cls = "Name"
           THEN /\ output_scope.global_namespace = input_scope.global_namespace
                /\ KeepsOthers(input_scope.local_namespace,
                               output_scope.local_namespace, BoundName)
           ELSE /\ output_scope.local_namespace = input_scope.local_namespace
                /\ KeepsOthers(input_scope.global_namespace,
                               output_scope.global_namespace, BoundName)

\* `$g = 1, 2` has run in a scope that binds range locally, in a run that is
\* not the top-level one: g is bound in the global namespace of the output.
C25_witness ==
    /\ Binds
    /\ AllStopped
    /\ the_filter.left.cls = "GlobalVariable"
    /\ input_scope.local_namespace # EmptyNamespace
    /\ input_scope.context = "not_main"
    /\ BoundName \in DOMAIN output_scope.global_namespace
    /\ BoundName \notin DOMAIN input_scope.global_namespace

\* The evaluation of `left; right` with every thread scheduled again and
\* again: a step that stays possible is eventually taken.
FairSpecScope == SpecScope /\ WF_vars(NextScope)

\* C26: every filter evaluation eventually attaches the local namespace, the
\* global namespace and the context to its output channel, on its error
\* paths too, so that a Semicolon that waits for the scope of its left
\* operand's output before it starts its right operand never waits forever.
C26_ScopeEventuallyAttached ==
    (semicolon.pc = "get_namespaces") ~> (semicolon.pc # "get_namespaces")

-----------------------------------------------------------------------------
(* Claims on conditions, indexing, commands and calls.                     *)

IsCondition(clause) == clause.name \in {"if", "elif", "elseIf"}

\* The first condition that produces no value or an Exception first; 0 if
\* every condition produces a value first.
FailingCondition(attributes) ==
    Least({i \in 1..Len(attributes) :
            /\ IsCondition(attributes[i])
            /\ \/ attributes[i].value.output = <<>>
               \/ IsException(Head(attributes[i].value.output))})

\* C27: when a condition of a Conditional produces no value, Conditional.run
\* yields exactly one empty exception and nothing else; when the first value
\* of a condition is an Exception, it yields exactly that exception and
\* nothing else; and no clause after that condition is evaluated.
C27_FailingConditionIsTheOutput ==
    (/\ the_filter.cls = "Conditional"
     /\ IsCondition(the_filter.attributes[1])
     /\ \A i \in 1..Len(the_filter.attributes) :
            the_filter.attributes[i].name \in {"if", "elif", "elseIf", "then", "else"}
     /\ FailingCondition(the_filter.attributes) # 0)
    => LET failing == the_filter.attributes[FailingCondition(the_filter.attributes)]
           events == Conditional_run(the_filter)
       IN  /\ Yields(events) =
                IF failing.value.output = <<>> THEN <<JQSHException("empty")>>
                ELSE <<Head(failing.value.output)>>
           /\ \A j \in 1..Len(events) :
                events[j].op = "start" =>
                    events[j].index <= FailingCondition(the_filter.attributes)

\* The kind of exception a lookup of the key in the value is to give; "none"
\* for an Object that has the key and an Array with an integer key in range.
IndexFailure(key, value) ==
    CASE value.t = "Object" ->
            IF \E i \in 1..Len(value.pairs) : value.pairs[i][1] = key
            THEN "none" ELSE "key"
      [] value.t = "Array" /\ key.t = "Number" ->
            IF key.e # 0 THEN "integer"
            ELSE IF key.v \in (0 - Len(value.items))..(Len(value.items) - 1)
            THEN "none" ELSE "index"
      [] OTHER -> "type"

\* The looked-up value of a lookup that does not fail.
Indexed(key, value) ==
    IF value.t = "Object"
    THEN LET i == CHOOSE i \in 1..Len(value.pairs) : value.pairs[i][1] = key
         IN  value.pairs[i][2]
    ELSE value.items[IF key.v >= 0 THEN key.v + 1 ELSE Len(value.items) + key.v + 1]

\* The position of the first input value whose lookup fails, 0 if none does.
FirstFailure(key, values) ==
    Least({i \in 1..Len(values) : IndexFailure(key, values[i]) # "none"})

\* C28: `.key` over an input sequence, once the filter thread has stopped:
\* with no key value the output is exactly one empty exception; otherwise the
\* output holds, in input order, the looked-up value of every input value
\* before the first one whose lookup fails, then exactly one exception of the
\* kind of that failure, and no input value after it has been read; with no
\* failure it holds the looked-up value of every input value. The output
\* channel is terminated.
C28_IndexingStopsAtFirstFailure ==
    (IsIndex(the_filter) /\ pc["FilterThread"] = "done") =>
        /\ output_channel.terminated
        /\ IF the_filter.key.output = <<>>
           THEN /\ output_channel.values = <<JQSHException("empty")>>
                /\ cursor["FilterThread"] = 0
           ELSE LET key == Head(the_filter.key.output)
                    failure == FirstFailure(key, input_channel)
                    good == IF failure = 0 THEN Len(input_channel) ELSE failure - 1
                IN  /\ Len(output_channel.values) = IF failure = 0 THEN good ELSE good + 1
                    /\ \A i \in 1..good :
                            output_channel.values[i] = Indexed(key, input_channel[i])
                    /\ failure # 0 =>
                            /\ output_channel.values[failure] =
                                    JQSHException(IndexFailure(key, input_channel[failure]))
                            /\ cursor["FilterThread"] = failure

\* `.a` on an Object with the key a followed by a String: the value under
\* a, then the type exception.
C28_witness ==
    /\ IsIndex(the_filter)
    /\ pc["FilterThread"] = "done"
    /\ the_filter.key.output # <<>>
    /\ Len(input_channel) = MaxInput
    /\ FirstFailure(Head(the_filter.key.output), input_channel) = 2
    /\ output_channel.values = <<Number(3), JQSHException("type")>>

\* The stream of values run_command reads: the bridge channel for a Command,
\* the input channel for an Apply.
Upstream ==
    IF the_filter.cls = "Command" THEN bridge_channel.values ELSE input_channel

\* The calls the protocol asks for: one write per upstream value, the end
\* marker, the close of the input stream, the read of the output.
Protocol(values) ==
    [i \in 1..Len(values) |-> [op |-> "write", bytes |-> <<[str |-> values[i]], "\n">>]]
    \o <<[op |-> "write", bytes |-> <<"\\x04">>], [op |-> "close"], [op |-> "read"]>>

C30_DottedCallResolution ==
    (IsCall(the_filter) /\ ~sensible_string(the_filter.attributes[1]).TypeError) =>
        LET name == sensible_string(the_filter.attributes[1]).value
            k == Len(the_filter.attributes) - 1
            invoked == pc["helper_thread"] # "unstarted"
            throws == pc["FilterThread"] \in {"throw_push", "throw_terminate"}
        IN  /\ DOMAIN builtin_functions = DOMAIN def_builtin
            /\ IF name \in DOMAIN builtin_functions /\ k \in builtin_functions[name]
               THEN /\ get_builtin(name, k) =
                            [KeyError |-> FALSE, name |-> name, num_args |-> k]
                    /\ ~throws
                    /\ AllStopped => invoked
               ELSE IF name \in DOMAIN builtin_functions /\ -1 \in builtin_functions[name]
               THEN /\ get_builtin(name, k) =
                            [KeyError |-> FALSE, name |-> name, num_args |-> -1]
                    /\ ~throws
                    /\ AllStopped => invoked
               ELSE IF name \in DOMAIN builtin_functions
               THEN ThrowsOnly("numArgs") /\ ~invoked
               ELSE ThrowsOnly("name") /\ ~invoked

\* `nth(0, 1)` where a variadic nth is registered next to the nth of one
\* argument: the variadic entry has been invoked and has stopped.
C30_witness ==
    /\ IsCall(the_filter)
    /\ sensible_string(the_filter.attributes[1]).value = "nth"
    /\ Len(the_filter.attributes) = 3
    /\ VarArgs \in builtin_functions["nth"]
    /\ pc["helper_thread"] = "done"
    /\ AllStopped

-----------------------------------------------------------------------------
(* Claims on the tokenizer.                                                *)

\* ''.join(token.string for token in tokens)
RECURSIVE JoinStrings(_)
JoinStrings(tokens) ==
    IF tokens = <<>> THEN <<>> ELSE Head(tokens).string \o JoinStrings(Tail(tokens))

\* C31: the tokenizer loses nothing. While it runs, the strings of the tokens
\* produced so far, the whitespace kept for the next token and the text not
\* yet read give back the input; once it has ended, the strings of the tokens
\* alone, in order, give back exactly the input: byte-order mark, whitespace,
\* comments, brackets and illegal characters included.
C31_TokenizerLossless ==
    /\ parser.pc = "tokenize" =>
            JoinStrings(parser.tokens) \o parser.whitespace_prefix \o parser.rest_string
                = parser.source
    /\ parser.pc \in {"parse", "done"} => JoinStrings(parser.tokens) = parser.source

\* A text of full length that starts with a byte-order mark has been
\* tokenized into a bracket that carries the mark and an illegal token.
C31_witness ==
    /\ parser.pc = "parse"
    /\ ~parser.from_tree
    /\ Len(parser.source) = MaxText
    /\ Head(parser.source) = BOM
    /\ Len(parser.tokens) = 2
    /\ parser.tokens[1].type \in {"open_paren", "open_array"}
    /\ Head(parser.tokens[1].string) = BOM
    /\ parser.tokens[2].type = "illegal"

=============================================================================
